---- MODULE Spec2Model ----
(***************************************************************************)
(* Model of the educational content workflow                               *)
(* (project/app/agents/educational_workflow.py and its nodes).             *)
(*                                                                         *)
(* One run of run_educational_workflow is a walk of the compiled           *)
(* StateGraph: intention_detector, one generator, media_generator and the  *)
(* media_generator/code_fixer retry loop.  Python strings are TLA+         *)
(* strings; a piece of Manim code is the sequence of its lines (the value  *)
(* of code.split("\n")), so the empty string is <<"">>.                    *)
(***************************************************************************)
EXTENDS Integers, Sequences, FiniteSets, TLC

(***************************************************************************)
(* Python values                                                           *)
(***************************************************************************)
None == "None"

\* dict.get(key, default)
Get(d, k, default) == IF k \in DOMAIN d THEN d[k] ELSE default

\* {**d, **upd}
Merge(d, upd) ==
    [k \in (DOMAIN d) \cup (DOMAIN upd) |-> IF k \in DOMAIN upd THEN upd[k] ELSE d[k]]

\* pattern in text, for Python strings
Contains(text, pattern) ==
    \E i \in 1..(Len(text) - Len(pattern) + 1) :
        SubSeq(text, i, i + Len(pattern) - 1) = pattern

\* pattern in code, for code held as its lines (no pattern spans a newline)
InCode(pattern, code) == \E i \in 1..Len(code) : Contains(code[i], pattern)

\* "".join / the empty string, as lines
EmptyCode == <<"">>

RECURSIVE FilterLines(_, _)
FilterLines(lines, pattern) ==
    IF lines = <<>> THEN <<>>
    ELSE IF Contains(Head(lines), pattern)
         THEN FilterLines(Tail(lines), pattern)
         ELSE <<Head(lines)>> \o FilterLines(Tail(lines), pattern)

\* "\n".join(lines): joining no lines gives the empty string
JoinLines(lines) == IF lines = <<>> THEN EmptyCode ELSE lines

(***************************************************************************)
(* Characters and the regular expressions of agents/utils.py.              *)
(* A regular expression is matched inside one line: \s is a blank or a    *)
(* tab, never the newline between two lines.                               *)
(***************************************************************************)
Char(s, i) == IF i >= 1 /\ i <= Len(s) THEN SubSeq(s, i, i) ELSE ""

StartsAt(s, i, word) ==
    /\ i >= 1
    /\ i + Len(word) - 1 <= Len(s)
    /\ SubSeq(s, i, i + Len(word) - 1) = word

Digits == {"0", "1", "2", "3", "4", "5", "6", "7", "8", "9"}

LowerLetters == {"a", "b", "c", "d", "e", "f", "g", "h", "i", "j", "k", "l", "m",
                 "n", "o", "p", "q", "r", "s", "t", "u", "v", "w", "x", "y", "z"}

UpperLetters == {"A", "B", "C", "D", "E", "F", "G", "H", "I", "J", "K", "L", "M",
                 "N", "O", "P", "Q", "R", "S", "T", "U", "V", "W", "X", "Y", "Z"}

\* \w
WordChars == LowerLetters \cup UpperLetters \cup Digits \cup {"_"}

\* \s
SpaceChars == {" ", "\t"}

\* the first index >= i of s whose character is not in cs (Len(s) + 1 if none)
RECURSIVE SkipChars(_, _, _)
SkipChars(s, i, cs) ==
    IF i > Len(s) THEN Len(s) + 1
    ELSE IF Char(s, i) \in cs THEN SkipChars(s, i + 1, cs) ELSE i

\* str.strip() == "" for one line
IsBlank(line) == SkipChars(line, 1, SpaceChars) > Len(line)

\* the least element of a non-empty set of integers
Least(S) == CHOOSE x \in S : \A y \in S : x <= y

\* re.IGNORECASE comparison of s[i..] with a lower-case word
LowerOf(c) ==
    IF c \in UpperLetters
    THEN CHOOSE l \in LowerLetters :
           \E k \in 1..26 : /\ SubSeq("abcdefghijklmnopqrstuvwxyz", k, k) = l
                            /\ SubSeq("ABCDEFGHIJKLMNOPQRSTUVWXYZ", k, k) = c
    ELSE c

StartsAtCI(s, i, word) ==
    /\ i >= 1
    /\ i + Len(word) - 1 <= Len(s)
    /\ \A k \in 1..Len(word) : LowerOf(Char(s, i + k - 1)) = Char(word, k)

(***************************************************************************)
(* extract_scene_name: r"class\s+(\w+)\s*\(\s*Scene\s*\)"                  *)
(***************************************************************************)
\* the class name matched with "class" at index i of the line, or None
SceneMatchAt(line, i) ==
    IF ~StartsAt(line, i, "class") THEN None
    ELSE LET b == SkipChars(line, i + 5, SpaceChars)
             c == SkipChars(line, b, WordChars)
             d == SkipChars(line, c, SpaceChars)
             e == SkipChars(line, d + 1, SpaceChars)
             f == SkipChars(line, e + 5, SpaceChars)
         IN  IF /\ b > i + 5
                /\ c > b
                /\ Char(line, d) = "("
                /\ StartsAt(line, e, "Scene")
                /\ Char(line, f) = ")"
             THEN SubSeq(line, b, c - 1)
             ELSE None

SceneMatchInLine(line) ==
    LET hits == {i \in 1..Len(line) : SceneMatchAt(line, i) # None}
    IN  IF hits = {} THEN None ELSE SceneMatchAt(line, Least(hits))

extract_scene_name(code) ==
    LET hits == {n \in 1..Len(code) : SceneMatchInLine(code[n]) # None}
    IN  IF hits = {} THEN None ELSE SceneMatchInLine(code[Least(hits)])

(***************************************************************************)
(* sanitize_manim_code                                                     *)
(***************************************************************************)
\* dangerous_imports without "eval("
dangerous_imports_NoEval ==
    <<"subprocess", "os.system", "exec(", "__import__", "importlib", "shutil.rmtree">>

dangerous_imports ==
    <<"subprocess", "os.system", "eval(", "exec(", "__import__", "importlib",
      "shutil.rmtree">>

RECURSIVE RemoveDangerous(_, _)
RemoveDangerous(code, n) ==
    IF n > Len(dangerous_imports) THEN code
    ELSE LET pattern == dangerous_imports[n]
         IN  RemoveDangerous(
                 IF InCode(pattern, code)
                 THEN JoinLines(FilterLines(code, pattern))
                 ELSE code,
                 n + 1)

HasManimImport(code) ==
    InCode("from manim import", code) \/ InCode("import manim", code)

\* sanitize_manim_code that prepends the import without looking for one
sanitize_manim_code_AlwaysPrepends(code) ==
    <<"from manim import *", "">> \o RemoveDangerous(code, 1)

sanitize_manim_code(code) ==
    LET cleaned == RemoveDangerous(code, 1)
    IN  IF ~HasManimImport(cleaned)
        THEN <<"from manim import *", "">> \o cleaned
        ELSE cleaned

(***************************************************************************)
(* extract_code_block on a model response.  A response is                  *)
(* [fence, body]: fence "python" or "generic" when the content holds such  *)
(* a fenced block whose inside is body, "none" when the whole content is   *)
(* body.  All three branches return the chosen text stripped.              *)
(***************************************************************************)
RECURSIVE DropLeadingBlank(_)
DropLeadingBlank(lines) ==
    IF lines = <<>> THEN <<>>
    ELSE IF IsBlank(Head(lines)) THEN DropLeadingBlank(Tail(lines)) ELSE lines

RECURSIVE DropTrailingBlank(_)
DropTrailingBlank(lines) ==
    IF lines = <<>> THEN <<>>
    ELSE IF IsBlank(lines[Len(lines)])
         THEN DropTrailingBlank(SubSeq(lines, 1, Len(lines) - 1))
         ELSE lines

\* str.strip() of one line
StripLeft(line) == SubSeq(line, SkipChars(line, 1, SpaceChars), Len(line))

RECURSIVE StripRight(_)
StripRight(line) ==
    IF line = "" THEN ""
    ELSE IF Char(line, Len(line)) \in SpaceChars
         THEN StripRight(SubSeq(line, 1, Len(line) - 1))
         ELSE line

\* str.strip() of a text held as lines
Strip(code) ==
    LET kept == DropTrailingBlank(DropLeadingBlank(code))
    IN  IF kept = <<>> THEN EmptyCode
        ELSE LET first == [kept EXCEPT ![1] = StripLeft(kept[1])]
             IN  [first EXCEPT ![Len(first)] = StripRight(first[Len(first)])]

extract_code_block(response) == Strip(response.body)

(***************************************************************************)
(* compile(code, "<string>", "exec"): the interpreter's parser is outside  *)
(* the repository; it is modelled by the balance of parentheses, the       *)
(* SyntaxError carrying the line (lineno) and the message (msg).           *)
(***************************************************************************)
Count(line, c) == Cardinality({i \in 1..Len(line) : Char(line, i) = c})

LineBalance(line) == Count(line, "(") - Count(line, ")")

RECURSIVE DepthAfter(_, _)
DepthAfter(code, n) ==
    IF n = 0 THEN 0 ELSE DepthAfter(code, n - 1) + LineBalance(code[n])

NoLine == 0

compile(code) ==
    LET closing == {n \in 1..Len(code) : DepthAfter(code, n) < 0}
        opening == {n \in 1..Len(code) : LineBalance(code[n]) > 0}
    IN  IF closing # {}
        THEN [ok |-> FALSE, msg |-> "unmatched ')'", lineno |-> Least(closing)]
        ELSE IF DepthAfter(code, Len(code)) > 0
        THEN [ok |-> FALSE, msg |-> "'(' was never closed", lineno |-> Least(opening)]
        ELSE [ok |-> TRUE, msg |-> "", lineno |-> NoLine]

(***************************************************************************)
(* _check_common_manim_issues                                              *)
(***************************************************************************)
\* the first index >= i of s holding character c (Len(s) + 1 if none)
RECURSIVE FindChar(_, _, _)
FindChar(s, i, c) ==
    IF i > Len(s) THEN Len(s) + 1
    ELSE IF Char(s, i) = c THEN i ELSE FindChar(s, i + 1, c)

\* r"RightAngle\s*\([^)]*\[\d+\]"
RightAngleIndexAt(line, i) ==
    /\ StartsAt(line, i, "RightAngle")
    /\ LET o == SkipChars(line, i + 10, SpaceChars)
           close == FindChar(line, o + 1, ")")
       IN  /\ Char(line, o) = "("
           /\ \E j \in (o + 1)..(close - 1) :
                 /\ Char(line, j) = "["
                 /\ LET k == SkipChars(line, j + 1, Digits)
                    IN  k > j + 1 /\ Char(line, k) = "]"

RightAngleIndexed(code) ==
    \E n \in 1..Len(code) : \E i \in 1..Len(code[n]) : RightAngleIndexAt(code[n], i)

PolygonWords == {"polygon", "triangle"}

\* r"(polygon|triangle)\s*\[\s*\d+\s*\]", re.IGNORECASE
PolygonIndexAt(line, i) ==
    \E w \in PolygonWords :
        /\ StartsAtCI(line, i, w)
        /\ LET a == SkipChars(line, i + Len(w), SpaceChars)
               b == SkipChars(line, a + 1, SpaceChars)
               c == SkipChars(line, b, Digits)
               d == SkipChars(line, c, SpaceChars)
           IN  Char(line, a) = "[" /\ c > b /\ Char(line, d) = "]"

PolygonIndexed(code) ==
    \E n \in 1..Len(code) : \E i \in 1..Len(code[n]) : PolygonIndexAt(code[n], i)

\* r"=\s*(polygon|triangle)\s*\[", re.IGNORECASE
PolygonAssignAt(line, i) ==
    /\ Char(line, i) = "="
    /\ \E w \in PolygonWords :
          LET a == SkipChars(line, i + 1, SpaceChars)
              b == SkipChars(line, a + Len(w), SpaceChars)
          IN  StartsAtCI(line, a, w) /\ Char(line, b) = "["

PolygonAssigned(code) ==
    \E n \in 1..Len(code) : \E i \in 1..Len(code[n]) : PolygonAssignAt(code[n], i)

UsesNumpy(code) ==
    \/ InCode("np.array(", code)
    \/ InCode("np.arctan", code)
    \/ InCode("np.cos", code)
    \/ InCode("np.sin", code)

\* r"(?:move_to|Dot|Line|Arrow|Polygon)\s*\(\s*\[[\d\.\-]+\s*,\s*[\d\.\-]+\s*\]"
PointPatternAt(line, i) ==
    \E w \in {"move_to", "Dot", "Line", "Arrow", "Polygon"} :
        /\ StartsAt(line, i, w)
        /\ LET number == Digits \cup {".", "-"}
               a == SkipChars(line, i + Len(w), SpaceChars)
               b == SkipChars(line, a + 1, SpaceChars)
               c == SkipChars(line, b + 1, number)
               d == SkipChars(line, c, SpaceChars)
               e == SkipChars(line, d + 1, SpaceChars)
               f == SkipChars(line, e, number)
               g == SkipChars(line, f, SpaceChars)
           IN  /\ Char(line, a) = "(" /\ Char(line, b) = "[" /\ c > b + 1
               /\ Char(line, d) = "," /\ f > e /\ Char(line, g) = "]"

\* re.search(point_pattern, code)
point_pattern(code) ==
    \E n \in 1..Len(code) : \E i \in 1..Len(code[n]) : PointPatternAt(code[n], i)

\* the list of issues (error first, then suggestions); <<>> stands for None
check_common_manim_issues(code) ==
    IF InCode("RightAngle(", code) /\ RightAngleIndexed(code)
    THEN <<"Incorrect use of RightAngle: RightAngle takes Line objects, not polygon indices",
           "Use 'Elbow(width=0.3, angle=-PI/2)' or a small Square for right angle markers">>
    ELSE IF PolygonIndexed(code) /\ ~PolygonAssigned(code)
    THEN <<"Potentially incorrect Polygon indexing: Polygon submobjects are not vertices",
           "Use explicit vertex coordinates [x, y, 0] instead of indexing into polygons">>
    ELSE IF /\ UsesNumpy(code)
            /\ ~InCode("import numpy", code)
            /\ ~InCode("from numpy", code)
            /\ ~InCode("from manim import *", code)
    THEN <<"Using numpy functions (np.) without proper import",
           "Either add 'import numpy as np' or use 'from manim import *' which includes numpy">>
    ELSE IF point_pattern(code)
    THEN <<>>   \* pass: the match adds no issue
    ELSE <<>>

(***************************************************************************)
(* validate_manim_code and CodeValidationResult                            *)
(***************************************************************************)
CodeValidationResult(is_valid, error_message, error_line, suggestions) ==
    [is_valid |-> is_valid, error_message |-> error_message,
     error_line |-> error_line, suggestions |-> suggestions]

\* not code or not code.strip()
IsEmptyCode(code) == \A n \in 1..Len(code) : IsBlank(code[n])

\* the decimal text of a line number
RECURSIVE Decimal(_)
Decimal(n) ==
    IF n < 10 THEN SubSeq("0123456789", n + 1, n + 1)
    ELSE Decimal(n \div 10) \o SubSeq("0123456789", (n % 10) + 1, (n % 10) + 1)

\* validate_manim_code without the Scene class check
validate_manim_code_NoSceneCheck(code) ==
    LET suggestions == IF ~HasManimImport(code)
                       THEN <<"Add 'from manim import *' at the top">>
                       ELSE <<>>
        compiled == compile(code)
        common_issues == check_common_manim_issues(code)
    IN  IF IsEmptyCode(code)
        THEN CodeValidationResult(FALSE, "Code is empty", NoLine,
                 <<"Provide valid Manim code with a Scene class">>)
        ELSE IF ~InCode("def construct(self", code)
        THEN CodeValidationResult(FALSE, "No construct method found in Scene class", NoLine,
                 <<"Add 'def construct(self):' method to your Scene class">>)
        ELSE IF ~compiled.ok
        THEN CodeValidationResult(FALSE, "Syntax error: " \o compiled.msg, compiled.lineno,
                 <<"Fix syntax error on line " \o Decimal(compiled.lineno) \o ": "
                     \o compiled.msg>>)
        ELSE IF common_issues # <<>>
        THEN CodeValidationResult(FALSE, common_issues[1], NoLine, Tail(common_issues))
        ELSE CodeValidationResult(TRUE, None, NoLine, suggestions)

\* validate_manim_code that compiles the code before it looks for the
\* Scene class and the construct method
validate_manim_code_SyntaxFirst(code) ==
    LET suggestions == IF ~HasManimImport(code)
                       THEN <<"Add 'from manim import *' at the top">>
                       ELSE <<>>
        compiled == compile(code)
        common_issues == check_common_manim_issues(code)
    IN  IF IsEmptyCode(code)
        THEN CodeValidationResult(FALSE, "Code is empty", NoLine,
                 <<"Provide valid Manim code with a Scene class">>)
        ELSE IF ~compiled.ok
        THEN CodeValidationResult(FALSE, "Syntax error: " \o compiled.msg, compiled.lineno,
                 <<"Fix syntax error on line " \o Decimal(compiled.lineno) \o ": "
                     \o compiled.msg>>)
        ELSE IF extract_scene_name(code) = None
        THEN CodeValidationResult(FALSE, "No Scene class found in code", NoLine,
                 <<"Create a class that inherits from Scene, e.g., 'class MyScene(Scene):'">>)
        ELSE IF ~InCode("def construct(self", code)
        THEN CodeValidationResult(FALSE, "No construct method found in Scene class", NoLine,
                 <<"Add 'def construct(self):' method to your Scene class">>)
        ELSE IF common_issues # <<>>
        THEN CodeValidationResult(FALSE, common_issues[1], NoLine, Tail(common_issues))
        ELSE CodeValidationResult(TRUE, None, NoLine, suggestions)

validate_manim_code(code) ==
    LET suggestions == IF ~HasManimImport(code)
                       THEN <<"Add 'from manim import *' at the top">>
                       ELSE <<>>
        compiled == compile(code)
        common_issues == check_common_manim_issues(code)
    IN  IF IsEmptyCode(code)
        THEN CodeValidationResult(FALSE, "Code is empty", NoLine,
                 <<"Provide valid Manim code with a Scene class">>)
        ELSE IF extract_scene_name(code) = None
        THEN CodeValidationResult(FALSE, "No Scene class found in code", NoLine,
                 <<"Create a class that inherits from Scene, e.g., 'class MyScene(Scene):'">>)
        ELSE IF ~InCode("def construct(self", code)
        THEN CodeValidationResult(FALSE, "No construct method found in Scene class", NoLine,
                 <<"Add 'def construct(self):' method to your Scene class">>)
        ELSE IF ~compiled.ok
        THEN CodeValidationResult(FALSE, "Syntax error: " \o compiled.msg, compiled.lineno,
                 <<"Fix syntax error on line " \o Decimal(compiled.lineno) \o ": "
                     \o compiled.msg>>)
        ELSE IF common_issues # <<>>
        THEN CodeValidationResult(FALSE, common_issues[1], NoLine, Tail(common_issues))
        ELSE CodeValidationResult(TRUE, None, NoLine, suggestions)

\* "; ".join(parts)
RECURSIVE JoinWith(_, _)
JoinWith(parts, sep) ==
    IF parts = <<>> THEN ""
    ELSE IF Len(parts) = 1 THEN parts[1]
    ELSE parts[1] \o sep \o JoinWith(Tail(parts), sep)

(***************************************************************************)
(* The run state and the graph's channels.                                 *)
(* StateGraph(EducationalState) creates one channel per key of the         *)
(* schema; a key of the input or of a node's returned dict that the        *)
(* schema does not declare has no channel and is not carried to the next   *)
(* node.  EducationalState declares the twelve keys below.                 *)
(***************************************************************************)
EducationalStateKeys ==
    {"pdf_text", "user_query", "curriculum_component", "intention_type",
     "detected_concepts", "analysis_summary", "manim_code", "code_explanation",
     "media_path", "media_type", "execution_status", "error_message"}

CurriculumComponent == {"math", "chemistry", "physics", "unknown"}
IntentionType == {"static", "dynamic", "improvement"}
ExecutionStatus == {"pending", "success", "failed"}

Restrict(d, keys) == [k \in (DOMAIN d) \cap keys |-> d[k]]

\* what the channels hold after a dict is written to them
ChannelWrite(channels, written) == Merge(channels, Restrict(written, EducationalStateKeys))

NoDict == [k \in {} |-> None]

MAX_RETRIES == 5

\* recursion_limit of the compiled graph: ainvoke is called with a config
\* that sets only thread_id, so the graph's default of 25 supersteps applies
RecursionLimit == 25

(***************************************************************************)
(* Routing functions                                                       *)
(***************************************************************************)
routing_map ==
    [static |-> "static_generator", dynamic |-> "dynamic_generator",
     improvement |-> "improvement_agent"]

\* route_by_intention with another default branch
route_by_intention_DefaultImprovement(st) ==
    LET intention == Get(st, "intention_type", "improvement")
    IN  Get(routing_map, intention, "improvement_agent")

route_by_intention(st) ==
    LET intention == Get(st, "intention_type", "static")
    IN  Get(routing_map, intention, "static_generator")

\* route_after_media_generation comparing with <= instead of <
route_after_media_generation_OffByOne(st) ==
    LET execution_status == Get(st, "execution_status", "pending")
        retry_count == Get(st, "retry_count", 0)
    IN  IF execution_status = "success" THEN "end"
        ELSE IF execution_status = "failed" /\ retry_count <= MAX_RETRIES THEN "code_fixer"
        ELSE "end"

\* a router that sends every attempt that is not failed to code_fixer
route_after_media_generation_RepairsSuccess(st) ==
    LET execution_status == Get(st, "execution_status", "pending")
        retry_count == Get(st, "retry_count", 0)
    IN  IF execution_status = "failed" /\ retry_count >= MAX_RETRIES THEN "end"
        ELSE "code_fixer"

route_after_media_generation(st) ==
    LET execution_status == Get(st, "execution_status", "pending")
        retry_count == Get(st, "retry_count", 0)
    IN  IF execution_status = "success" THEN "end"
        ELSE IF execution_status = "failed" /\ retry_count < MAX_RETRIES THEN "code_fixer"
        ELSE "end"

(***************************************************************************)
(* Inputs of a run and answers of the language model                       *)
(***************************************************************************)
PdfText == "The Pythagorean theorem: a^2 + b^2 = c^2"

ValidScene ==
    <<"from manim import *", "", "class Pythagoras(Scene):",
      "    def construct(self):", "        self.add(Square())">>

\* thread_id: the parameter's default, which the chat router's calls use,
\* and a str(uuid.uuid4()) as the educational router passes
DefaultThread == "default"
UuidThread == "6f1c2d9e-4b7a-4c3e-9a51-0d2e8b7f4a10"
ThreadIds == {DefaultThread, UuidThread}

\* existing_code or "": None and "" both give the empty string
ExistingCodes == {EmptyCode, ValidScene}

\* the calls made by the routers: a first request without query or code,
\* and a follow-up request with a query and the code of the previous answer
Calls_run_educational_workflow ==
    { [pdf_text |-> PdfText, user_query |-> None, existing_code |-> EmptyCode,
       thread_id |-> DefaultThread],
      [pdf_text |-> PdfText, user_query |-> "Show the proof as an animation",
       existing_code |-> ValidScene, thread_id |-> DefaultThread] }

\* model answers of the generators and of the code fixer
CodeResponses ==
    { [fence |-> "python", body |-> ValidScene],
      [fence |-> "generic",
       body |-> <<"import subprocess", "class Proof(Scene):",
                  "    def construct(self):", "        x = eval(input())",
                  "        self.add(Circle())", "">>],
      [fence |-> "python",
       body |-> <<"from manim import *", "class Broken(Scene):",
                  "    def construct(self):", "        self.add(Circle(">>],
      [fence |-> "none", body |-> <<"I cannot produce this animation.">>],
      [fence |-> "none", body |-> EmptyCode] }
(***************************************************************************)
(* parse_json_response.  A model response is its content, a Python        *)
(* string.  json.loads belongs to the interpreter: it is the table          *)
(* JsonDocuments of the texts it accepts, any other text being a            *)
(* JSONDecodeError.  A backquote cannot be written in a TLA+ string: the    *)
(* character ~ stands for it, so a code fence is ~~~.                       *)
(***************************************************************************)
SummaryLimit == 200

Prefix(text, n) == SubSeq(text, 1, IF Len(text) < n THEN Len(text) ELSE n)

PyList(items) == [is_list |-> TRUE, items |-> items]
NotAList == [is_list |-> FALSE, items |-> <<>>]

\* \s with re.DOTALL text: blanks, tabs and line ends
Whitespace == SpaceChars \cup {"\n", "\r"}

Greatest(S) == CHOOSE x \in S : \A y \in S : x >= y

\* str.strip() of a text
StripText(text) ==
    LET kept == {k \in 1..Len(text) : Char(text, k) \notin Whitespace}
    IN  IF kept = {} THEN "" ELSE SubSeq(text, Least(kept), Greatest(kept))

\* the first index >= i of s at which word starts, 0 if there is none
FirstIndexOf(s, i, word) ==
    LET hits == {k \in i..Len(s) : StartsAt(s, k, word)}
    IN  IF hits = {} THEN 0 ELSE Least(hits)

Fence == "~~~"
JsonFenceOpener == Fence \o "json"

NoMatch == [found |-> FALSE, text |-> ""]

\* opener\s*\n(.*?)~~~ matched with the opener at index i: \s* is greedy and
\* gives back up to the last line end of the blank run, (.*?) stops at the
\* first closing fence
FenceMatchAt(content, i, opener) ==
    LET j == i + Len(opener)
        k == SkipChars(content, j, Whitespace)
        newlines == {n \in j..(k - 1) : Char(content, n) = "\n"}
        g == Greatest(newlines) + 1
        close == FirstIndexOf(content, g, Fence)
    IN  IF ~StartsAt(content, i, opener) \/ newlines = {} \/ close = 0
        THEN NoMatch
        ELSE [found |-> TRUE, text |-> SubSeq(content, g, close - 1)]

\* re.search(opener\s*\n(.*?)~~~, content, re.DOTALL): the leftmost match
FenceSearch(content, opener) ==
    LET hits == {i \in 1..Len(content) : FenceMatchAt(content, i, opener).found}
    IN  IF hits = {} THEN NoMatch ELSE FenceMatchAt(content, Least(hits), opener)

\* the text parse_json_response hands to json.loads (before .strip())
JsonBlock(content) ==
    IF FenceSearch(content, JsonFenceOpener).found
    THEN FenceSearch(content, JsonFenceOpener).text
    ELSE IF FenceSearch(content, Fence).found
    THEN FenceSearch(content, Fence).text
    ELSE content

\* an object with the four keys of a classification
Payload(curriculum, intention, concepts) ==
    [curriculum |-> curriculum, intention |-> intention, concepts |-> concepts,
     summary |-> "A proof of the Pythagorean theorem"]

JsonObject(value) == [kind |-> "object", value |-> value]
JsonOther == [kind |-> "other", value |-> NoDict]
JSONDecodeError == [kind |-> "error", value |-> NoDict]

\* the JSON texts json.loads accepts, with the value it returns: objects
\* that are well formed, objects with values outside the enumerations or of
\* the wrong type, objects lacking keys, and JSON values that are no object
JsonDocuments ==
    { [text |-> "{\"curriculum\": \"math\", \"intention\": \"static\", \"concepts\": [\"Pythagorean theorem\"], \"summary\": \"A proof of the Pythagorean theorem\"}",
       json |-> JsonObject(Payload("math", "static", PyList(<<"Pythagorean theorem">>)))],
      [text |-> "{\"curriculum\": \"physics\", \"intention\": \"dynamic\", \"concepts\": [\"Pythagorean theorem\"], \"summary\": \"A proof of the Pythagorean theorem\"}",
       json |-> JsonObject(Payload("physics", "dynamic", PyList(<<"Pythagorean theorem">>)))],
      [text |-> "{\"curriculum\": \"chemistry\", \"intention\": \"improvement\", \"concepts\": [], \"summary\": \"A proof of the Pythagorean theorem\"}",
       json |-> JsonObject(Payload("chemistry", "improvement", PyList(<<>>)))],
      [text |-> "{\"curriculum\": \"biology\", \"intention\": \"quiz\", \"concepts\": \"none\", \"summary\": \"A proof of the Pythagorean theorem\"}",
       json |-> JsonObject(Payload("biology", "quiz", NotAList))],
      [text |-> "{\"curriculum\": \"unknown\", \"intention\": \"dynamic\", \"concepts\": null, \"summary\": \"A proof of the Pythagorean theorem\"}",
       json |-> JsonObject(Payload("unknown", "dynamic", NotAList))],
      [text |-> "{}",
       json |-> JsonObject(NoDict)],
      [text |-> "{\"curriculum\": \"math\"}",
       json |-> JsonObject([curriculum |-> "math"])],
      [text |-> "{\"intention\": \"improvement\", \"summary\": \"A proof of the Pythagorean theorem\"}",
       json |-> JsonObject([intention |-> "improvement",
                            summary |-> "A proof of the Pythagorean theorem"])],
      [text |-> "{\"intention\": \"improvement\", \"concepts\": [\"Pythagorean theorem\"]}",
       json |-> JsonObject([intention |-> "improvement",
                            concepts |-> PyList(<<"Pythagorean theorem">>)])],
      [text |-> "[1, 2]", json |-> JsonOther],
      [text |-> "42", json |-> JsonOther] }

\* json.loads(text)
json_loads(text) ==
    IF \E d \in JsonDocuments : d.text = text
    THEN (CHOOSE d \in JsonDocuments : d.text = text).json
    ELSE JSONDecodeError

\* [is_dict, value]: value is the returned dict when is_dict
parse_json_response(response) ==
    LET content == JsonBlock(response)
        loaded == json_loads(StripText(content))
    IN  IF loaded.kind = "object"
        THEN [is_dict |-> TRUE, value |-> loaded.value]
        ELSE IF loaded.kind = "other"
        THEN [is_dict |-> FALSE, value |-> NoDict]
        ELSE [is_dict |-> TRUE,
              value |-> [curriculum |-> "unknown", intention |-> "static",
                         concepts |-> PyList(<<>>),
                         summary |-> IF content # ""
                                     THEN Prefix(content, SummaryLimit)
                                     ELSE "Unable to parse response"]]

\* intention_detector that stores the intention as the classifier gave it
intention_detector_KeepsIntention(st, parsed) ==
    LET curriculum0 == Get(parsed, "curriculum", "unknown")
        curriculum == IF curriculum0 \notin CurriculumComponent THEN "unknown" ELSE curriculum0
        intention == Get(parsed, "intention", "static")
        concepts0 == Get(parsed, "concepts", PyList(<<>>))
        concepts == IF ~concepts0.is_list THEN <<>> ELSE concepts0.items
        summary == Get(parsed, "summary", "")
    IN  Merge(st, [curriculum_component |-> curriculum,
                   intention_type |-> intention,
                   detected_concepts |-> concepts,
                   analysis_summary |-> summary])

\* the dict intention_detector returns for a parsed dict
intention_detector(st, parsed) ==
    LET curriculum0 == Get(parsed, "curriculum", "unknown")
        curriculum == IF curriculum0 \notin CurriculumComponent THEN "unknown" ELSE curriculum0
        intention0 == Get(parsed, "intention", "static")
        intention == IF intention0 \notin IntentionType THEN "static" ELSE intention0
        concepts0 == Get(parsed, "concepts", PyList(<<>>))
        concepts == IF ~concepts0.is_list THEN <<>> ELSE concepts0.items
        summary == Get(parsed, "summary", "")
    IN  Merge(st, [curriculum_component |-> curriculum,
                   intention_type |-> intention,
                   detected_concepts |-> concepts,
                   analysis_summary |-> summary])


\* a text of more than SummaryLimit characters that is not JSON
LongProse ==
    "This document introduces the Pythagorean theorem. "
    \o "In a right triangle the square on the hypotenuse equals the sum of the squares on the two legs. "
    \o "A static picture with the three squares drawn on the sides shows the statement well."

\* what the classifier model can answer: a JSON document bare, in a json
\* fence or in a plain fence, with or without prose around it; prose;
\* fenced prose; nothing
ClassifierResponses ==
    {d.text : d \in JsonDocuments}
    \cup {"~~~json\n" \o d.text \o "\n~~~" : d \in JsonDocuments}
    \cup { "~~~\n{\"curriculum\": \"math\"}\n~~~",
           "Here is the classification:\n~~~json  \n\n  {}\n~~~\nDone.",
           "The classification is {\"curriculum\": \"math\"}",
           "This document is about geometry.",
           LongProse,
           "~~~json\nThis document is about geometry.\n~~~",
           "~~~\n" \o LongProse \o "\n~~~",
           "~~~json\n~~~",
           "   ",
           "" }

(***************************************************************************)
(* static_generator, dynamic_generator, improvement_agent, code_fixer:     *)
(* the dict each returns for a model answer                                *)
(***************************************************************************)
\* The code a model answer becomes, sanitize_manim_code(extract_code_block(
\* response.content)), and the verdicts on every code a run can hold, are
\* computed once for the answers of the model.
\* the answers' code blocks stored as extracted, without sanitize_manim_code
SanitizedAnswer_NotSanitized ==
    [response \in CodeResponses |-> extract_code_block(response)]

SanitizedAnswer ==
    [response \in CodeResponses |-> sanitize_manim_code(extract_code_block(response))]

KnownCodes == ExistingCodes \cup {SanitizedAnswer[response] : response \in CodeResponses}

Validation == [code \in KnownCodes |-> validate_manim_code(code)]

SceneName == [code \in KnownCodes |-> extract_scene_name(code)]

\* static_generator that resets the classification
static_generator_Reclassifies(st, response) ==
    Merge(st, [manim_code |-> SanitizedAnswer[response],
               curriculum_component |-> "unknown",
               code_explanation |-> "Static visualization generated for unknown content"])

static_generator(st, response) ==
    Merge(st, [manim_code |-> SanitizedAnswer[response],
               code_explanation |-> "Static visualization generated for "
                                     \o st["curriculum_component"] \o " content"])

dynamic_generator(st, response) ==
    Merge(st, [manim_code |-> SanitizedAnswer[response],
               code_explanation |-> "Dynamic animation generated for "
                                     \o st["curriculum_component"] \o " content"])

improvement_agent(st, response) ==
    Merge(st, [manim_code |-> SanitizedAnswer[response],
               code_explanation |-> "Code improved based on user feedback"])

\* code_fixer that returns the failed code again
code_fixer_KeepsCode(st, response) ==
    Merge(st, [error_message |-> None,
               execution_status |-> "pending",
               retry_count |-> Get(st, "retry_count", 0) + 1])

\* code_fixer that leaves the previous error in place
code_fixer_KeepsError(st, response) ==
    LET current_retries == Get(st, "retry_count", 0)
        fixed_code == SanitizedAnswer[response]
    IN  Merge(st, [manim_code |-> fixed_code,
                   execution_status |-> "pending",
                   retry_count |-> current_retries + 1])

code_fixer(st, response) ==
    LET current_retries == Get(st, "retry_count", 0)
        fixed_code == SanitizedAnswer[response]
    IN  Merge(st, [manim_code |-> fixed_code,
                   error_message |-> None,
                   execution_status |-> "pending",
                   retry_count |-> current_retries + 1])
(***************************************************************************)
(* media_generator.  env is what the machine does during one invocation:   *)
(* whether each file-system call succeeds, how the manim subprocess ends   *)
(* and which files it leaves, and the uuid of the attempt.                 *)
(***************************************************************************)
ErrorLimit == 1000

FileIds == {"1f0c9a3e", "7bd24e60"}

BaseEnv ==
    [outdir_ok |-> TRUE, mkdtemp_ok |-> TRUE, write_ok |-> TRUE,
     proc |-> "exit", returncode |-> 0, stderr |-> "", stdout |-> "",
     videos_dir |-> TRUE, mp4 |-> TRUE, images_dir |-> FALSE, png |-> FALSE,
     copy_ok |-> TRUE, rmtree_ok |-> TRUE, file_id |-> "1f0c9a3e"]

AllEnvs ==
    {[BaseEnv EXCEPT !.file_id = f, !.rmtree_ok = r] : f \in FileIds, r \in BOOLEAN}
    \cup {[BaseEnv EXCEPT !.outdir_ok = FALSE], [BaseEnv EXCEPT !.mkdtemp_ok = FALSE],
          [BaseEnv EXCEPT !.write_ok = FALSE], [BaseEnv EXCEPT !.copy_ok = FALSE],
          [BaseEnv EXCEPT !.proc = "timeout"], [BaseEnv EXCEPT !.proc = "oserror"]}
    \cup {[BaseEnv EXCEPT !.returncode = 1, !.stderr = e, !.stdout = o, !.rmtree_ok = r] :
             e \in {"", "NameError: name 'Squar' is not defined"},
             o \in {"", "Manim Community v0.18"},
             r \in BOOLEAN}
    \cup {[BaseEnv EXCEPT !.videos_dir = v, !.mp4 = m, !.images_dir = i, !.png = g] :
             v \in BOOLEAN, m \in BOOLEAN, i \in BOOLEAN, g \in BOOLEAN}

\* files can only be inside directories that exist
PossibleEnv(env) == (env.mp4 => env.videos_dir) /\ (env.png => env.images_dir)

Envs == {env \in AllEnvs : PossibleEnv(env)}

\* the path find_generated_media returns, or None
find_generated_media(env, scene_name) ==
    IF ~env.videos_dir THEN None
    ELSE IF env.mp4
    THEN "media/videos/scene/720p30/" \o scene_name \o ".mp4"
    ELSE IF env.images_dir /\ env.png
    THEN "media/images/scene/" \o scene_name \o ".png"
    ELSE None

\* Path.suffix of a path with a three-letter extension
Suffix(path) == SubSeq(path, Len(path) - 3, Len(path))

\* a failing return of media_generator that counts the attempt as a retry
FailedState_CountsRetry(st, message) ==
    Merge(st, [execution_status |-> "failed",
               error_message |-> message,
               retry_count |-> Get(st, "retry_count", 0) + 1])

\* a failing return of media_generator that names a media file
FailedState_SetsMedia(st, message) ==
    Merge(st, [execution_status |-> "failed",
               error_message |-> message,
               media_path |-> "/static/generated/scene.mp4",
               retry_count |-> Get(st, "retry_count", 0)])

FailedState(st, message) ==
    Merge(st, [execution_status |-> "failed",
               error_message |-> message,
               retry_count |-> Get(st, "retry_count", 0)])

\* a successful return of media_generator that forgets media_type
SuccessState_NoMediaType(st, relative_path, media_type) ==
    Merge(st, [media_path |-> relative_path,
               execution_status |-> "success",
               error_message |-> None,
               retry_count |-> Get(st, "retry_count", 0)])

\* a successful return of media_generator that forgets execution_status
SuccessState_KeepsStatus(st, relative_path, media_type) ==
    Merge(st, [media_path |-> relative_path,
               media_type |-> media_type,
               error_message |-> None,
               retry_count |-> Get(st, "retry_count", 0)])

SuccessState(st, relative_path, media_type) ==
    Merge(st, [media_path |-> relative_path,
               media_type |-> media_type,
               execution_status |-> "success",
               error_message |-> None,
               retry_count |-> Get(st, "retry_count", 0)])

\* what one invocation does: raised (an exception leaves the node), output
\* (the returned dict), workdir (a working directory was created), removed
\* (it was deleted again), spawned (the subprocess was started), copied (the
\* file name written to the serving directory, or None)
\* an invocation that leaves its working directory behind
Outcome_LeavesWorkdir(raised, output, workdir, removed, spawned, copied) ==
    [raised |-> raised, output |-> output, workdir |-> workdir,
     removed |-> FALSE, spawned |-> spawned, copied |-> copied]

\* an attempt that leaves a file in MEDIA_OUTPUT_DIR whenever it has run
\* the subprocess
Outcome_CopiesAnyway(raised, output, workdir, removed, spawned, copied) ==
    [raised |-> raised, output |-> output, workdir |-> workdir,
     removed |-> removed, spawned |-> spawned,
     copied |-> IF copied = None /\ spawned THEN "scene.mp4" ELSE copied]

Outcome(raised, output, workdir, removed, spawned, copied) ==
    [raised |-> raised, output |-> output, workdir |-> workdir,
     removed |-> removed, spawned |-> spawned, copied |-> copied]

\* RunManim without the except clause for the timeout: the timeout is
\* caught by the general except clause
RunManim_TimeoutAsError(st, env, scene_name) ==
    LET error_msg == IF env.stderr # "" THEN env.stderr
                     ELSE IF env.stdout # "" THEN env.stdout
                     ELSE "Unknown Manim error"
        generated_file == find_generated_media(env, scene_name)
        extension == Suffix(generated_file)
        output_filename == scene_name \o "_" \o env.file_id \o extension
        media_type == IF extension = ".mp4" THEN "video/mp4" ELSE "image/png"
        relative_path == "/static/generated/" \o output_filename
    IN  IF ~env.write_ok
        THEN Outcome(FALSE,
                 FailedState(st, "Error during media generation: "
                                   \o "[Errno 28] No space left on device"),
                 TRUE, env.rmtree_ok, FALSE, None)
        ELSE IF env.proc = "timeout"
        THEN Outcome(FALSE,
                 FailedState(st, "Error during media generation: "
                                   \o "Command 'manim' timed out after 120 seconds"),
                 TRUE, env.rmtree_ok, TRUE, None)
        ELSE IF env.proc = "oserror"
        THEN Outcome(FALSE,
                 FailedState(st, "Error during media generation: "
                                   \o "[Errno 2] No such file or directory: 'manim'"),
                 TRUE, env.rmtree_ok, FALSE, None)
        ELSE IF env.returncode # 0
        THEN Outcome(FALSE,
                 FailedState(st, "Manim execution failed: " \o Prefix(error_msg, ErrorLimit)),
                 TRUE, env.rmtree_ok, TRUE, None)
        ELSE IF generated_file = None
        THEN Outcome(FALSE,
                 FailedState(st, "Manim ran successfully but no output file was found"),
                 TRUE, env.rmtree_ok, TRUE, None)
        ELSE IF ~env.copy_ok
        THEN Outcome(FALSE,
                 FailedState(st, "Error during media generation: "
                                   \o "[Errno 13] Permission denied"),
                 TRUE, env.rmtree_ok, TRUE, None)
        ELSE Outcome(FALSE, SuccessState(st, relative_path, media_type),
                 TRUE, env.rmtree_ok, TRUE, output_filename)

\* the part of media_generator inside try/finally, after mkdtemp
RunManim(st, env, scene_name) ==
    LET error_msg == IF env.stderr # "" THEN env.stderr
                     ELSE IF env.stdout # "" THEN env.stdout
                     ELSE "Unknown Manim error"
        generated_file == find_generated_media(env, scene_name)
        extension == Suffix(generated_file)
        output_filename == scene_name \o "_" \o env.file_id \o extension
        media_type == IF extension = ".mp4" THEN "video/mp4" ELSE "image/png"
        relative_path == "/static/generated/" \o output_filename
    IN  IF ~env.write_ok
        THEN Outcome(FALSE,
                 FailedState(st, "Error during media generation: "
                                   \o "[Errno 28] No space left on device"),
                 TRUE, env.rmtree_ok, FALSE, None)
        ELSE IF env.proc = "timeout"
        THEN Outcome(FALSE, FailedState(st, "Manim execution timed out (120s limit)"),
                 TRUE, env.rmtree_ok, TRUE, None)
        ELSE IF env.proc = "oserror"
        THEN Outcome(FALSE,
                 FailedState(st, "Error during media generation: "
                                   \o "[Errno 2] No such file or directory: 'manim'"),
                 TRUE, env.rmtree_ok, FALSE, None)
        ELSE IF env.returncode # 0
        THEN Outcome(FALSE,
                 FailedState(st, "Manim execution failed: " \o Prefix(error_msg, ErrorLimit)),
                 TRUE, env.rmtree_ok, TRUE, None)
        ELSE IF generated_file = None
        THEN Outcome(FALSE,
                 FailedState(st, "Manim ran successfully but no output file was found"),
                 TRUE, env.rmtree_ok, TRUE, None)
        ELSE IF ~env.copy_ok
        THEN Outcome(FALSE,
                 FailedState(st, "Error during media generation: "
                                   \o "[Errno 13] Permission denied"),
                 TRUE, env.rmtree_ok, TRUE, None)
        ELSE Outcome(FALSE, SuccessState(st, relative_path, media_type),
                 TRUE, env.rmtree_ok, TRUE, output_filename)

media_generator(st, env) ==
    LET code == Get(st, "manim_code", EmptyCode)
        validation_result == Validation[code]
        message == IF validation_result.error_message = None
                   THEN "Code validation failed"
                   ELSE validation_result.error_message
        error_msg == IF validation_result.suggestions # <<>>
                     THEN message \o ". Suggestions: "
                            \o JoinWith(validation_result.suggestions, "; ")
                     ELSE message
        scene_name == SceneName[code]
    IN  IF ~env.outdir_ok
        THEN Outcome(TRUE, NoDict, FALSE, FALSE, FALSE, None)
        ELSE IF code = EmptyCode
        THEN Outcome(FALSE, FailedState(st, "No Manim code to execute"),
                 FALSE, FALSE, FALSE, None)
        ELSE IF ~validation_result.is_valid
        THEN Outcome(FALSE, FailedState(st, error_msg), FALSE, FALSE, FALSE, None)
        ELSE IF scene_name = None
        THEN Outcome(FALSE, FailedState(st, "Could not find Scene class in the code"),
                 FALSE, FALSE, FALSE, None)
        ELSE IF ~env.mkdtemp_ok
        THEN Outcome(TRUE, NoDict, FALSE, FALSE, FALSE, None)
        ELSE RunManim(st, env, scene_name)
(***************************************************************************)
(* One run of run_educational_workflow                                     *)
(***************************************************************************)
VARIABLES
    args,         \* the arguments of run_educational_workflow
    pc,           \* "start", the node to run next, "end", "returned",
                  \* "raised" (a node raised), "recursion_error"
    state,        \* the values of the graph's channels
    node_output,  \* the dict returned by the node that ran last
    trace,        \* the nodes invoked so far, in order
    step,         \* supersteps taken by the graph
    result,       \* the dict run_educational_workflow returns
    copied,       \* file names written to MEDIA_OUTPUT_DIR, in order
    attempt,      \* what the last media_generator invocation did besides
                  \* returning: working directory, subprocess, copy
    exception,    \* the exception ainvoke raised, None while there is none
    memory,       \* the MemorySaver of educational_graph: the channel values
                  \* last checkpointed under each thread_id
    suspended     \* the variables of a second run of the same process that
                  \* waits at an await, NoRun when there is none

vars == <<args, pc, state, node_output, trace, step, result, copied, attempt, exception,
          memory, suspended>>

Nodes ==
    {"intention_detector", "static_generator", "dynamic_generator",
     "improvement_agent", "media_generator", "code_fixer"}

NoAttempt == [workdir |-> FALSE, removed |-> FALSE, spawned |-> FALSE, copied |-> None]

NoRun == [k \in {} |-> None]

\* a thread_id without a checkpoint
NoCheckpoint == NoDict

\* the local variables of a call of run_educational_workflow that has not
\* started yet
NewRun ==
    /\ pc = "start"
    /\ state = NoDict
    /\ node_output = NoDict
    /\ trace = <<>>
    /\ step = 0
    /\ result = NoDict
    /\ attempt = NoAttempt
    /\ exception = None

\* a process that has imported the module (the graph is compiled, its
\* MemorySaver is empty) and receives its first call
Init ==
    /\ args \in Calls_run_educational_workflow
    /\ NewRun
    /\ copied = <<>>
    /\ memory = [t \in ThreadIds |-> NoCheckpoint]
    /\ suspended = NoRun

\* an input that leaves the outcome fields to the checkpoint
InitialState_KeepsOutcome(a) ==
    [pdf_text |-> a.pdf_text,
     user_query |-> a.user_query,
     curriculum_component |-> "unknown",
     intention_type |-> "static",
     detected_concepts |-> <<>>,
     analysis_summary |-> "",
     manim_code |-> a.existing_code,
     code_explanation |-> "",
     retry_count |-> 0]

\* an input that leaves manim_code to the checkpoint
InitialState_KeepsCode(a) ==
    [pdf_text |-> a.pdf_text,
     user_query |-> a.user_query,
     curriculum_component |-> "unknown",
     intention_type |-> "static",
     detected_concepts |-> <<>>,
     analysis_summary |-> "",
     code_explanation |-> "",
     media_path |-> None,
     media_type |-> None,
     execution_status |-> "pending",
     error_message |-> None,
     retry_count |-> 0]

InitialState(a) ==
    [pdf_text |-> a.pdf_text,
     user_query |-> a.user_query,
     curriculum_component |-> "unknown",
     intention_type |-> "static",
     detected_concepts |-> <<>>,
     analysis_summary |-> "",
     manim_code |-> a.existing_code,
     code_explanation |-> "",
     media_path |-> None,
     media_type |-> None,
     execution_status |-> "pending",
     error_message |-> None,
     retry_count |-> 0]

initial_state == InitialState(args)

\* a configuration that puts every call on the thread "default"
config_SharedThread == [configurable |-> [thread_id |-> DefaultThread]]

\* the config passed to ainvoke
config == [configurable |-> [thread_id |-> args.thread_id]]

\* run_educational_workflow up to the first node: ainvoke loads the channel
\* values checkpointed under the thread_id, writes the input over them,
\* saves the checkpoint and schedules the entry point
Invoke ==
    /\ pc = "start"
    /\ state' = ChannelWrite(memory[config.configurable.thread_id], initial_state)
    /\ memory' = [memory EXCEPT ![config.configurable.thread_id] = state']
    /\ pc' = "intention_detector"
    /\ UNCHANGED <<args, node_output, trace, step, result, copied, attempt, exception,
                   suspended>>

\* a node returned output: its writes are applied to the channels, the
\* checkpoint of the thread is saved and the graph moves along the edge to
\* next
Advance(node, output, next) ==
    /\ node_output' = output
    /\ state' = ChannelWrite(state, output)
    /\ memory' = [memory EXCEPT ![config.configurable.thread_id] = state']
    /\ trace' = Append(trace, node)
    /\ step' = step + 1
    /\ pc' = IF next = "end" THEN "end"
             ELSE IF step + 1 >= RecursionLimit THEN "recursion_error"
             ELSE next
    /\ exception' = IF next # "end" /\ step + 1 >= RecursionLimit
                    THEN "GraphRecursionError"
                    ELSE exception

\* the exception of a failed model call (llm.ainvoke)
LLMError == "APIConnectionError"

\* an exception left the node: ainvoke and run_educational_workflow raise it
Raise(node, exc) ==
    /\ pc' = "raised"
    /\ exception' = exc
    /\ trace' = Append(trace, node)
    /\ step' = step + 1
    /\ UNCHANGED <<state, node_output, memory>>

\* intention_detector when the classifier's answer is one of responses
IntentionDetectorOn(responses) ==
    /\ pc = "intention_detector"
    /\ \/ \E response \in responses :
             LET parsed == parse_json_response(response)
             IN  IF parsed.is_dict
                 THEN LET output == intention_detector(state, parsed.value)
                      IN  Advance("intention_detector", output,
                                  route_by_intention(ChannelWrite(state, output)))
                 ELSE Raise("intention_detector", "AttributeError")
       \/ Raise("intention_detector", LLMError)
    /\ UNCHANGED <<args, result, copied, attempt, suspended>>

IntentionDetector == IntentionDetectorOn(ClassifierResponses)

\* the generators and code_fixer when the model's answer is one of responses
StaticGeneratorOn(responses) ==
    /\ pc = "static_generator"
    /\ \/ \E response \in responses :
             Advance("static_generator", static_generator(state, response),
                     "media_generator")
       \/ Raise("static_generator", LLMError)
    /\ UNCHANGED <<args, result, copied, attempt, suspended>>

StaticGenerator == StaticGeneratorOn(CodeResponses)

DynamicGeneratorOn(responses) ==
    /\ pc = "dynamic_generator"
    /\ \/ \E response \in responses :
             Advance("dynamic_generator", dynamic_generator(state, response),
                     "media_generator")
       \/ Raise("dynamic_generator", LLMError)
    /\ UNCHANGED <<args, result, copied, attempt, suspended>>

DynamicGenerator == DynamicGeneratorOn(CodeResponses)

ImprovementAgentOn(responses) ==
    /\ pc = "improvement_agent"
    /\ \/ \E response \in responses :
             Advance("improvement_agent", improvement_agent(state, response),
                     "media_generator")
       \/ Raise("improvement_agent", LLMError)
    /\ UNCHANGED <<args, result, copied, attempt, suspended>>

ImprovementAgent == ImprovementAgentOn(CodeResponses)

\* media_generator when the machine behaves as one of envs
MediaGeneratorOn(envs) ==
    /\ pc = "media_generator"
    /\ \E env \in envs :
          \E out \in {media_generator(state, env)} :
              /\ IF out.raised
                 THEN Raise("media_generator", "OSError")
                 ELSE Advance("media_generator", out.output,
                              route_after_media_generation(ChannelWrite(state, out.output)))
              /\ copied' = IF out.copied = None THEN copied ELSE Append(copied, out.copied)
              /\ attempt' = [workdir |-> out.workdir, removed |-> out.removed,
                              spawned |-> out.spawned, copied |-> out.copied]
    /\ UNCHANGED <<args, result, suspended>>

MediaGenerator == MediaGeneratorOn(Envs)

CodeFixerOn(responses) ==
    /\ pc = "code_fixer"
    /\ \/ \E response \in responses :
             Advance("code_fixer", code_fixer(state, response), "media_generator")
       \/ Raise("code_fixer", LLMError)
    /\ UNCHANGED <<args, result, copied, attempt, suspended>>

CodeFixer == CodeFixerOn(CodeResponses)

\* run_educational_workflow after ainvoke returned the final state
Return ==
    /\ pc = "end"
    /\ result' = [media_path |-> Get(state, "media_path", None),
                  media_type |-> Get(state, "media_type", None),
                  status |-> Get(state, "execution_status", None),
                  error |-> Get(state, "error_message", None),
                  curriculum |-> Get(state, "curriculum_component", None),
                  intention |-> Get(state, "intention_type", None),
                  manim_code |-> Get(state, "manim_code", EmptyCode),
                  detected_concepts |-> Get(state, "detected_concepts", <<>>),
                  analysis_summary |-> Get(state, "analysis_summary", "")]
    /\ pc' = "returned"
    /\ UNCHANGED <<args, state, node_output, trace, step, copied, attempt, exception,
                   memory, suspended>>

Next ==
    \/ Invoke
    \/ IntentionDetector
    \/ StaticGenerator
    \/ DynamicGenerator
    \/ ImprovementAgent
    \/ MediaGenerator
    \/ CodeFixer
    \/ Return

Spec == Init /\ [][Next]_vars

\* every step that can be taken is eventually taken: a node that is
\* scheduled runs, and its model call or subprocess returns
FairSpec == Spec /\ WF_vars(Next)

(***************************************************************************)
(* Quantities of a run                                                     *)
(***************************************************************************)
Calls(node) == Cardinality({i \in 1..Len(trace) : trace[i] = node})

LastNode == IF trace = <<>> THEN None ELSE trace[Len(trace)]

\* state.get("retry_count", 0), as every node and router reads it
RetryCount(st) == Get(st, "retry_count", 0)

TypeOK ==
    /\ pc \in {"start", "end", "returned", "raised", "recursion_error"} \cup Nodes
    /\ DOMAIN state \subseteq EducationalStateKeys
    /\ step \in 0..RecursionLimit
    /\ step = Len(trace)
Generators == {"static_generator", "dynamic_generator", "improvement_agent"}

GeneratorCalls ==
    Calls("static_generator") + Calls("dynamic_generator") + Calls("improvement_agent")

\* the graph has stopped at END (the result is being or has been returned)
AtEnd == pc \in {"end", "returned"}

\* the run is over: at END, or ainvoke raised GraphRecursionError
RunOver == pc \in {"end", "returned", "recursion_error"}

\* the last node returned normally and its writes are in the channels
NodeReturned(node) == LastNode = node /\ pc # "raised"

(***************************************************************************)
(* C1.  When the graph reaches END, retry_count is at most MAX_RETRIES     *)
(* and equals the number of code_fixer invocations of the run.             *)
(***************************************************************************)
C1_RetryCountCountsRepairs ==
    AtEnd => /\ RetryCount(state) <= MAX_RETRIES
             /\ RetryCount(state) = Calls("code_fixer")

(***************************************************************************)
(* C2.  Every run whose node invocations all return eventually reaches     *)
(* END (and returns its result record); "raised" is a run in which a node  *)
(* invocation did not return normally.                                     *)
(***************************************************************************)
C2_RunReachesEnd == <>(pc \in {"returned", "raised"})

(***************************************************************************)
(* C3.  While every media_generator invocation of a run has failed,        *)
(* code_fixer has been invoked at most 5 times, and when such a run is     *)
(* over it is at END with retry_count = 5, execution_status = "failed"     *)
(* and exactly 5 code_fixer invocations.                                   *)
(***************************************************************************)
C3_FiveRepairsThenEnd ==
    (state # NoDict /\ state["execution_status"] # "success") =>
        /\ Calls("code_fixer") <= MAX_RETRIES
        /\ RunOver => /\ AtEnd
                      /\ Calls("code_fixer") = MAX_RETRIES
                      /\ RetryCount(state) = MAX_RETRIES
                      /\ state["execution_status"] = "failed"

(***************************************************************************)
(* C4.  At END with execution_status = "success", media_path and           *)
(* media_type are set and error_message is None, in the final state and    *)
(* in the returned result record.                                          *)
(***************************************************************************)
C4_SuccessHasMediaAndNoError ==
    /\ (AtEnd /\ state["execution_status"] = "success") =>
          /\ state["media_path"] # None
          /\ state["media_type"] # None
          /\ state["error_message"] = None
    /\ (pc = "returned" /\ result["status"] = "success") =>
          /\ result["media_path"] # None
          /\ result["media_type"] # None
          /\ result["error"] = None

\* a run that succeeded after at least one failed attempt and repair
C4_SuccessAfterRepair ==
    /\ pc = "returned"
    /\ result["status"] = "success"
    /\ Calls("code_fixer") >= 1

MaxRetryProbe == 7

C6_RouteAfterMedia ==
    NodeReturned("media_generator") =>
        /\ \A es \in ExecutionStatus : \A rc \in 0..MaxRetryProbe :
              LET st == Merge(state, [execution_status |-> es, retry_count |-> rc])
                  selected == route_after_media_generation(st)
              IN  /\ es = "success" => selected = "end"
                  /\ (es = "failed" /\ rc < 5) => selected = "code_fixer"
                  /\ (es # "success" /\ ~(es = "failed" /\ rc < 5)) => selected = "end"
        /\ pc \in {"code_fixer", "end", "returned", "recursion_error"}
        /\ pc = "code_fixer" =>
              state["execution_status"] = "failed" /\ RetryCount(state) < 5
        /\ AtEnd =>
              \/ state["execution_status"] = "success"
              \/ state["execution_status"] = "failed" /\ RetryCount(state) >= 5

\* a failed attempt with retries left has been routed to code_fixer
C6_FailureRoutedToFixer ==
    /\ NodeReturned("media_generator")
    /\ pc = "code_fixer"
    /\ state["execution_status"] = "failed"

(***************************************************************************)
(* C7.  After intention_detector the generator mapped from intention_type  *)
(* runs, and it is the only generator of the run; any other or missing     *)
(* intention_type is routed to static_generator.                           *)
(***************************************************************************)
IntentionProbe == IntentionType \cup {"quiz", "", None}

MappedGenerator(intention) ==
    CASE intention = "static" -> "static_generator"
      [] intention = "dynamic" -> "dynamic_generator"
      [] intention = "improvement" -> "improvement_agent"
      [] OTHER -> "static_generator"

C7_OneMappedGenerator ==
    /\ GeneratorCalls <= 1
    /\ \A i \in 1..Len(trace) : trace[i] \in Generators =>
          /\ i = 2
          /\ trace[1] = "intention_detector"
          /\ trace[i] = MappedGenerator(state["intention_type"])
    /\ (NodeReturned("intention_detector") \/ Len(trace) >= 2) =>
          /\ pc # "start"
          /\ pc \in Generators => pc = MappedGenerator(state["intention_type"])
          /\ Len(trace) >= 2 => trace[2] \in Generators
          /\ \A v \in IntentionProbe :
                route_by_intention(Merge(state, [intention_type |-> v]))
                    = MappedGenerator(v)
          /\ route_by_intention(Restrict(state, EducationalStateKeys \ {"intention_type"}))
                = "static_generator"

\* the improvement agent was selected and has run
C7_ImprovementSelected ==
    /\ Len(trace) >= 2
    /\ trace[2] = "improvement_agent"
    /\ state["intention_type"] = "improvement"
    /\ pc = "media_generator"

(***************************************************************************)
(* C8.  A code_fixer invocation returns the incoming retry_count plus      *)
(* one (1 after the first repair), error_message None, execution_status    *)
(* "pending" and the sanitized replacement code, and media_generator is    *)
(* then given that code with the error cleared.                            *)
(***************************************************************************)
C8_FixerStep ==
    (pc = "code_fixer" /\ pc' # "raised") =>
        /\ node_output'["retry_count"] = RetryCount(state) + 1
        /\ Calls("code_fixer") = 0 => node_output'["retry_count"] = 1
        /\ node_output'["error_message"] = None
        /\ node_output'["execution_status"] = "pending"
        /\ \E response \in CodeResponses :
              node_output'["manim_code"] = sanitize_manim_code(extract_code_block(response))
        /\ state["error_message"] # None
        /\ state'["error_message"] = None
        /\ state'["execution_status"] = "pending"
        /\ state'["manim_code"] = node_output'["manim_code"]

C8_CodeFixerContract == [][C8_FixerStep]_vars

\* the first repair has returned and media_generator is about to re-execute
C8_AfterFirstRepair ==
    /\ NodeReturned("code_fixer")
    /\ pc = "media_generator"
    /\ Calls("code_fixer") = 1
    /\ node_output["retry_count"] = 1
    /\ state["error_message"] = None

(***************************************************************************)
(* C9.  retry_count (as read with state.get("retry_count", 0)) never       *)
(* decreases from one state of the run to the next; a node other than      *)
(* code_fixer returns it as it received it, and code_fixer returns it      *)
(* increased.                                                              *)
(***************************************************************************)
C9_NodeStep ==
    /\ RetryCount(state') >= RetryCount(state)
    /\ (Len(trace') > Len(trace) /\ pc' # "raised") =>
          IF pc = "code_fixer"
          THEN RetryCount(node_output') > RetryCount(state)
          ELSE RetryCount(node_output') = RetryCount(state)

C9_OnlyFixerIncrements == [][C9_NodeStep]_vars

\* media_generator has returned in a retry, after a repair
C9_MediaAfterRepair ==
    /\ NodeReturned("media_generator")
    /\ Calls("code_fixer") >= 1
    /\ "retry_count" \in DOMAIN node_output

(***************************************************************************)
(* C10.  No run is at END with execution_status "pending": every           *)
(* media_generator return sets "success" or "failed", END is entered only  *)
(* from media_generator, and the result record's status is one of the two. *)
(***************************************************************************)
C10_StatusDecided ==
    /\ NodeReturned("media_generator") => state["execution_status"] \in {"success", "failed"}
    /\ AtEnd => /\ LastNode = "media_generator"
                /\ state["execution_status"] \in {"success", "failed"}
    /\ pc = "returned" => result["status"] \in {"success", "failed"}

\* a result record has been returned for a run that went through a repair
C10_ResultReturned ==
    /\ pc = "returned"
    /\ result["status"] \in {"success", "failed"}
    /\ "code_fixer" \in {trace[i] : i \in 1..Len(trace)}

(***************************************************************************)
(* C11.  Once the retries are exhausted (MAX_RETRIES code_fixer            *)
(* invocations have been made) and the attempt that followed has failed,   *)
(* the run is at END, and the result it returns carries the error_message  *)
(* and the manim_code of that last media_generator invocation.             *)
(***************************************************************************)
C11_LastErrorAndCodeReturned ==
    (/\ NodeReturned("media_generator")
     /\ state["execution_status"] = "failed"
     /\ Calls("code_fixer") >= MAX_RETRIES) =>
        /\ AtEnd
        /\ pc = "returned" =>
              /\ result["status"] = "failed"
              /\ result["error"] = node_output["error_message"]
              /\ result["manim_code"] = node_output["manim_code"]

(***************************************************************************)
(* C12.  Whatever the model answers, intention_detector returns normally   *)
(* (no exception leaves the node) with a classification whose curriculum   *)
(* and intention are in their enumerations.                                *)
(***************************************************************************)
C12_DetectorStep ==
    (pc = "intention_detector" /\ exception' # LLMError) =>
        /\ pc' # "raised"
        /\ node_output'["curriculum_component"] \in CurriculumComponent
        /\ node_output'["intention_type"] \in IntentionType

C12_DetectorNeverRaises == [][C12_DetectorStep]_vars

(***************************************************************************)
(* C14.  No exception leaves media_generator: every invocation returns,    *)
(* with execution_status "success" or "failed", and a failure carries an   *)
(* error_message.                                                          *)
(***************************************************************************)
C14_MediaStep ==
    pc = "media_generator" =>
        /\ pc' # "raised"
        /\ node_output'["execution_status"] \in {"success", "failed"}
        /\ node_output'["execution_status"] = "failed" =>
              node_output'["error_message"] # None

C14_MediaGeneratorNeverRaises == [][C14_MediaStep]_vars

(***************************************************************************)
(* C13.  For every model response in which json.loads finds no JSON,       *)
(* fenced or not, the classification is curriculum "unknown", intention    *)
(* "static", no concepts, and a summary equal to the first 200 characters  *)
(* of the raw response.                                                    *)
(***************************************************************************)
NoParseableJson(response) == json_loads(StripText(JsonBlock(response))) = JSONDecodeError

C13_DefaultOnParseFailure ==
    pc = "intention_detector" =>
        \A response \in ClassifierResponses : NoParseableJson(response) =>
            \E out \in {intention_detector(state, parse_json_response(response).value)} :
                /\ out["curriculum_component"] = "unknown"
                /\ out["intention_type"] = "static"
                /\ out["detected_concepts"] = <<>>
                /\ out["analysis_summary"] = Prefix(response, SummaryLimit)

(***************************************************************************)
(* C15.  Whatever the machine does during a media_generator invocation,    *)
(* a working directory that was created is deleted before the node         *)
(* returns unless the deletion itself fails, and whether the deletion      *)
(* fails changes nothing of what the node returns.                         *)
(***************************************************************************)
C15_WorkdirDeleted ==
    pc = "media_generator" =>
        \A env \in Envs :
            \E out \in {media_generator(state, env)} :
                /\ out.workdir => (out.removed <=> env.rmtree_ok)
                /\ \E other \in {media_generator(state,
                                     [env EXCEPT !.rmtree_ok = ~env.rmtree_ok])} :
                      /\ other.raised = out.raised
                      /\ other.output = out.output

\* a timed-out attempt has returned after its working directory was deleted
C15_DeletedAfterTimeout ==
    /\ NodeReturned("media_generator")
    /\ attempt.workdir /\ attempt.removed
    /\ state["error_message"] = "Manim execution timed out (120s limit)"

(***************************************************************************)
(* C16.  An invocation of media_generator on empty code or on code that    *)
(* validate_manim_code rejects returns execution_status "failed" and       *)
(* creates no working directory and spawns no subprocess; an invocation    *)
(* that spawns the subprocess had code that passed validation and has a    *)
(* Scene class name.                                                       *)
(***************************************************************************)
C16_MediaStep ==
    pc = "media_generator" =>
        /\ (state["manim_code"] = EmptyCode \/ ~Validation[state["manim_code"]].is_valid) =>
              /\ pc' # "raised"
              /\ node_output'["execution_status"] = "failed"
              /\ ~attempt'.workdir
              /\ ~attempt'.spawned
        /\ attempt'.spawned =>
              /\ Validation[state["manim_code"]].is_valid
              /\ SceneName[state["manim_code"]] # None

C16_NoExecutionOfInvalidCode == [][C16_MediaStep]_vars

(***************************************************************************)
(* sanitize_manim_code on its own: the function is applied, twice in a     *)
(* row, to every code of at most SanitizeMaxLines lines drawn from         *)
(* SanitizeLines.  args.existing_code is the input, state["manim_code"]    *)
(* the current text, node_output["manim_code"] the text before the last    *)
(* application.                                                            *)
(***************************************************************************)
SanitizeMaxLines == 3

SanitizeLines ==
    { "from manim import *",
      "import subprocess",
      "import manim; x = eval(input())",
      "class Proof(Scene):",
      "        os.system(cmd); importlib.reload(m)",
      "" }

RECURSIVE CodesOfLength(_)
CodesOfLength(n) ==
    IF n = 0 THEN {<<>>}
    ELSE {Append(code, line) : code \in CodesOfLength(n - 1), line \in SanitizeLines}

SanitizeInputs == UNION {CodesOfLength(n) : n \in 1..SanitizeMaxLines}

SanitizeInit ==
    /\ args \in {[pdf_text |-> PdfText, user_query |-> None, existing_code |-> code] :
                    code \in SanitizeInputs}
    /\ pc = "sanitize_manim_code"
    /\ state = [manim_code |-> args.existing_code]
    /\ node_output = NoDict
    /\ trace = <<>>
    /\ step = 0
    /\ result = NoDict
    /\ copied = <<>>
    /\ attempt = NoAttempt
    /\ exception = None
    /\ memory = [t \in ThreadIds |-> NoCheckpoint]
    /\ suspended = NoRun

Sanitize ==
    /\ pc = "sanitize_manim_code"
    /\ Len(trace) < 2
    /\ state' = [manim_code |-> sanitize_manim_code(state["manim_code"])]
    /\ node_output' = state
    /\ trace' = Append(trace, "sanitize_manim_code")
    /\ UNCHANGED <<args, pc, step, result, copied, attempt, exception, memory, suspended>>

SanitizeSpec == SanitizeInit /\ [][Sanitize]_vars

\* the disallowed substrings and the import test, as the specification
\* states them
Disallowed ==
    {"subprocess", "os.system", "eval(", "exec(", "__import__", "importlib", "shutil.rmtree"}

IsAllowedLine(line) == \A p \in Disallowed : ~Contains(line, p)

ImportsManim(code) ==
    \E n \in 1..Len(code) :
        Contains(code[n], "from manim import") \/ Contains(code[n], "import manim")

\* the text made of the input lines that hold no disallowed substring
KeptText(code) == JoinLines(SelectSeq(code, IsAllowedLine))

(***************************************************************************)
(* C19.  sanitize_manim_code is idempotent: a second application returns   *)
(* what the first returned; after one application no line holds a          *)
(* disallowed substring and a manim import is present.                     *)
(***************************************************************************)
C19_SanitizeIdempotent ==
    pc = "sanitize_manim_code" =>
        /\ Len(trace) >= 1 =>
              /\ \A n \in 1..Len(state["manim_code"]) : IsAllowedLine(state["manim_code"][n])
              /\ ImportsManim(state["manim_code"])
        /\ Len(trace) = 2 => state["manim_code"] = node_output["manim_code"]

\* sanitized twice, the first application having removed a line and
\* prepended the import
C19_SanitizedTwice ==
    /\ pc = "sanitize_manim_code"
    /\ Len(trace) = 2
    /\ args.existing_code = <<"class Proof(Scene):", "import subprocess">>
    /\ state["manim_code"] = <<"from manim import *", "", "class Proof(Scene):">>

(***************************************************************************)
(* C20.  The output of sanitize_manim_code is the input lines that hold    *)
(* none of the disallowed substrings, unchanged and in order, preceded by  *)
(* the line "from manim import *" when none of them imports manim.         *)
(***************************************************************************)
C20_OnlyImportLinePrepended ==
    (pc = "sanitize_manim_code" /\ Len(trace) = 1) =>
        state["manim_code"] =
            IF ImportsManim(KeptText(args.existing_code))
            THEN KeptText(args.existing_code)
            ELSE <<"from manim import *">> \o KeptText(args.existing_code)

(***************************************************************************)
(* C20, as the code has it.  The output of sanitize_manim_code is the      *)
(* input lines that hold none of the disallowed substrings, unchanged      *)
(* and in order, preceded by the line "from manim import *" and an empty   *)
(* line when none of them imports manim.                                   *)
(***************************************************************************)
C20_ImportAndBlankLinePrepended ==
    (pc = "sanitize_manim_code" /\ Len(trace) = 1) =>
        state["manim_code"] =
            IF ImportsManim(KeptText(args.existing_code))
            THEN KeptText(args.existing_code)
            ELSE <<"from manim import *", "">> \o KeptText(args.existing_code)

\* a line calling eval( was removed, the other lines kept, the import added
C20_EvalLineRemoved ==
    /\ pc = "sanitize_manim_code"
    /\ Len(trace) = 1
    /\ args.existing_code = <<"class Proof(Scene):", "import manim; x = eval(input())", "">>
    /\ state["manim_code"] = <<"from manim import *", "", "class Proof(Scene):", "">>

(***************************************************************************)
(* A call in a process that has served an earlier call.  educational_graph *)
(* is a module-level singleton, so its MemorySaver and the serving         *)
(* directory outlive a call; the chat router passes no thread_id, so every *)
(* one of its calls runs on the thread "default".                          *)
(***************************************************************************)
FailingEnv ==
    [BaseEnv EXCEPT !.returncode = 1, !.stderr = "NameError: name 'Squar' is not defined"]

\* the first request of the chat router, on the thread "default"
ChatCall ==
    [pdf_text |-> PdfText, user_query |-> None, existing_code |-> EmptyCode,
     thread_id |-> DefaultThread]

\* the process after the call a has ended, when its classifier answered
\* "{}", its generator answered response and its media_generator met env:
\* the last checkpoint of its thread and the files in the serving directory
AfterEarlierRun(a, response, env) ==
    \E s0 \in {ChannelWrite(NoCheckpoint, InitialState(a))} :
    \E s1 \in {ChannelWrite(s0, intention_detector(s0, NoDict))} :
    \E s2 \in {ChannelWrite(s1, static_generator(s1, response))} :
    \E out \in {media_generator(s2, env)} :
        /\ memory = [t \in ThreadIds |->
                        IF t = a.thread_id THEN ChannelWrite(s2, out.output)
                        ELSE NoCheckpoint]
        /\ copied = IF out.copied = None THEN <<>> ELSE <<out.copied>>

\* a call in a process without an earlier call, after an earlier call that
\* succeeded, or after an earlier call whose media_generator failed and
\* whose code_fixer then raised
SessionInit ==
    /\ args \in Calls_run_educational_workflow
    /\ NewRun
    /\ suspended = NoRun
    /\ \/ /\ memory = [t \in ThreadIds |-> NoCheckpoint]
          /\ copied = <<>>
       \/ AfterEarlierRun(ChatCall, [fence |-> "python", body |-> ValidScene], BaseEnv)
       \/ AfterEarlierRun(ChatCall, [fence |-> "python", body |-> ValidScene], FailingEnv)

SessionSpec == SessionInit /\ [][Next]_vars

\* the run has been started and no node has run yet
JustInvoked == pc = "intention_detector" /\ trace = <<>>

(***************************************************************************)
(* C18.  Every invocation of run_educational_workflow starts its run from  *)
(* retry_count = 0, execution_status = "pending", error_message = None and *)
(* media_path = None, whatever an earlier run has left in the checkpoint   *)
(* of the same thread_id.                                                  *)
(***************************************************************************)
C18_RunStartsFresh ==
    JustInvoked =>
        /\ RetryCount(state) = 0
        /\ Get(state, "execution_status", None) = "pending"
        /\ Get(state, "error_message", None) = None
        /\ Get(state, "media_path", None) = None

\* a run started on the thread of an earlier run that has left its media
\* in the serving directory
C18_StartedAfterEarlierRun ==
    /\ JustInvoked
    /\ copied # <<>>
    /\ args.thread_id = DefaultThread
    /\ Get(state, "media_path", None) = None

(***************************************************************************)
(* Two calls in one process.  The routers are coroutines of one event      *)
(* loop: while a call waits at an await (the model call of a node,         *)
(* ainvoke itself) the loop runs the other call.  The                      *)
(* variables args .. exception are those of the call that is running,      *)
(* suspended holds those of the call that waits; memory and copied belong  *)
(* to the process.                                                         *)
(***************************************************************************)
RunVars ==
    [args |-> args, pc |-> pc, state |-> state, node_output |-> node_output,
     trace |-> trace, step |-> step, result |-> result, attempt |-> attempt,
     exception |-> exception]

\* the running call reaches an await and the event loop resumes the other
Switch ==
    /\ suspended # NoRun
    /\ suspended' = RunVars
    /\ args' = suspended.args
    /\ pc' = suspended.pc
    /\ state' = suspended.state
    /\ node_output' = suspended.node_output
    /\ trace' = suspended.trace
    /\ step' = suspended.step
    /\ result' = suspended.result
    /\ attempt' = suspended.attempt
    /\ exception' = suspended.exception
    /\ UNCHANGED <<copied, memory>>

\* a request of the educational router, on a thread of its own
EducationalCall ==
    [pdf_text |-> "Boyle's law: p V = k", user_query |-> "Plot pressure against volume",
     existing_code |-> EmptyCode, thread_id |-> UuidThread]

\* the chat router's call is running and the educational router's waits
ConcurrentInit ==
    /\ args = ChatCall
    /\ NewRun
    /\ copied = <<>>
    /\ memory = [t \in ThreadIds |-> NoCheckpoint]
    /\ suspended = [RunVars EXCEPT !.args = EducationalCall]

\* the answers and machine behaviours followed for two calls: a complete
\* classification for each intention and an answer that is no JSON object,
\* code that runs and an answer without code, a manim run that succeeds
\* under each file id, one that fails and a serving directory that cannot
\* be created
ConcurrentClassifierResponses ==
    {d.text : d \in {x \in JsonDocuments :
                        /\ x.json.kind = "object"
                        /\ DOMAIN x.json.value = {"curriculum", "intention", "concepts", "summary"}
                        /\ x.json.value.curriculum \in CurriculumComponent \ {"unknown"}}}
    \cup {"[1, 2]"}

ConcurrentCodeResponses ==
    { [fence |-> "python", body |-> ValidScene],
      [fence |-> "none", body |-> <<"I cannot produce this animation.">>] }

ConcurrentEnvs ==
    {[BaseEnv EXCEPT !.file_id = f] : f \in FileIds}
    \cup {FailingEnv, [BaseEnv EXCEPT !.outdir_ok = FALSE]}

ConcurrentNext ==
    \/ Switch
    \/ Invoke
    \/ IntentionDetectorOn(ConcurrentClassifierResponses)
    \/ StaticGeneratorOn(ConcurrentCodeResponses)
    \/ DynamicGeneratorOn(ConcurrentCodeResponses)
    \/ ImprovementAgentOn(ConcurrentCodeResponses)
    \/ MediaGeneratorOn(ConcurrentEnvs)
    \/ CodeFixerOn(ConcurrentCodeResponses)
    \/ Return

ConcurrentSpec == ConcurrentInit /\ [][ConcurrentNext]_vars

\* what holds of one call r (a record of its variables) when it reads and
\* writes nothing of another call: the checkpoint of its thread is its own
\* channel values, its inputs are its own arguments, and the record it
\* returned is made of its own final state
OwnCheckpoint(r) == r.pc # "start" => memory[r.args.thread_id] = r.state

OwnInputs(r) ==
    r.pc # "start" => /\ r.state["pdf_text"] = r.args.pdf_text
                      /\ r.state["user_query"] = r.args.user_query

OwnResult(r) ==
    r.pc = "returned" =>
        /\ r.result.status = r.state["execution_status"]
        /\ r.result.media_path = r.state["media_path"]
        /\ r.result.error = r.state["error_message"]
        /\ r.result.intention = r.state["intention_type"]
        /\ r.result.curriculum = r.state["curriculum_component"]
        /\ r.result.manim_code = r.state["manim_code"]

Isolated(r) == OwnCheckpoint(r) /\ OwnInputs(r) /\ OwnResult(r)

\* a step of the running call on its own variables: it leaves the waiting
\* call alone, its new channel values are its old ones overwritten by the
\* output of its node, the next node is the one its routing function gives
\* for its own state, and of the serving directory it changes nothing but
\* to add a file
OwnStateStep ==
    /\ suspended' = suspended
    /\ args' = args
    /\ (trace' # trace /\ pc' # "raised") => state' = ChannelWrite(state, node_output')
    /\ (trace' = trace /\ pc # "start") => state' = state
    /\ (LastNode' = "intention_detector" /\ pc' \in Nodes)
           => pc' = route_by_intention(state')
    /\ (trace' # trace /\ LastNode' = "media_generator" /\ pc' \in {"code_fixer", "end"})
           => pc' = route_after_media_generation(state')
    /\ RetryCount(state') \in {RetryCount(state), RetryCount(state) + 1}
    /\ \/ copied' = copied
       \/ \E name \in {attempt'.copied} : copied' = Append(copied, name)

\* a step of the running call: it also leaves the checkpoint of the waiting
\* call's thread alone
OwnStep ==
    /\ memory'[suspended.args.thread_id] = memory[suspended.args.thread_id]
    /\ OwnStateStep

\* the event loop resumed the waiting call: nothing but the roles changed
SwitchStep ==
    /\ RunVars' = suspended
    /\ suspended' = RunVars
    /\ UNCHANGED <<memory, copied>>

(***************************************************************************)
(* C17.  Two runs with distinct thread identifiers, interleaved            *)
(* arbitrarily at their suspension points, never read or write each        *)
(* other's run state: every step is a step of one run on its own state     *)
(* (routing, retry_count, result record), and only the serving directory   *)
(* is written by both.                                                     *)
(***************************************************************************)
C17_Step ==
    /\ IF suspended' # suspended THEN SwitchStep ELSE OwnStep
    /\ Isolated(RunVars)'
    /\ Isolated(suspended)'

C17_RunsIsolated == [][C17_Step]_vars

\* both calls have returned, one with a picture and one with an animation
\* repaired once, and both files are in the serving directory
C17_BothRunsReturned ==
    /\ pc = "returned"
    /\ suspended.pc = "returned"
    /\ result.status = "success"
    /\ suspended.result.status = "success"
    /\ result.intention # suspended.result.intention
    /\ Calls("code_fixer") = 1
    /\ Len(copied) = 2

(***************************************************************************)
(* validate_manim_code on its own: the function is applied to every code   *)
(* of at most ValidateMaxLines lines drawn from ValidateLines.             *)
(* state["manim_code"] is the code, node_output the CodeValidationResult.  *)
(***************************************************************************)
ValidateMaxLines == 3

ValidateLines ==
    { "",
      "class Proof(Scene):",
      "class Zoom(MovingCameraScene):",
      "    def construct(self):",
      "        self.add(Circle(",
      "        self.add(triangle[0])",
      "        self.add(RightAngle(a[0], b[1]))",
      "        x = np.cos(1)",
      "        self.add(Dot([1, 2]))",
      "        self.add(Square())" }

ValidateInit ==
    /\ args \in {[pdf_text |-> PdfText, user_query |-> None, existing_code |-> code,
                  thread_id |-> DefaultThread] :
                    code \in UNION {[1..n -> ValidateLines] : n \in 1..ValidateMaxLines}}
    /\ pc = "validate_manim_code"
    /\ state = [manim_code |-> args.existing_code]
    /\ node_output = NoDict
    /\ trace = <<>>
    /\ step = 0
    /\ result = NoDict
    /\ copied = <<>>
    /\ attempt = NoAttempt
    /\ exception = None
    /\ memory = [t \in ThreadIds |-> NoCheckpoint]
    /\ suspended = NoRun

Validate ==
    /\ pc = "validate_manim_code"
    /\ node_output' = validate_manim_code(state["manim_code"])
    /\ pc' = "validated"
    /\ trace' = Append(trace, "validate_manim_code")
    /\ UNCHANGED <<args, state, step, result, copied, attempt, exception, memory, suspended>>

ValidateSpec == ValidateInit /\ [][Validate]_vars

ManimExited(st, env, returncode) ==
    /\ Validation[Get(st, "manim_code", EmptyCode)].is_valid
    /\ env.outdir_ok /\ env.mkdtemp_ok /\ env.write_ok /\ env.copy_ok
    /\ env.proc = "exit"
    /\ env.returncode = returncode

(***************************************************************************)
(* C22.  After the manim subprocess exits with code 0, media_generator     *)
(* succeeds with a produced .mp4 if there is one, otherwise with a         *)
(* produced .png if there is one, and fails with "Manim ran successfully   *)
(* but no output file was found" only when neither was produced (a render  *)
(* that left only an image and no videos directory succeeds).              *)
(***************************************************************************)
C22_VideoThenImage ==
    pc = "media_generator" =>
        \A env \in Envs :
            ManimExited(state, env, 0) =>
                \E out \in {media_generator(state, env).output} :
                    IF env.mp4
                    THEN out["execution_status"] = "success" /\ out["media_type"] = "video/mp4"
                    ELSE IF env.png
                    THEN out["execution_status"] = "success" /\ out["media_type"] = "image/png"
                    ELSE /\ out["execution_status"] = "failed"
                         /\ out["error_message"]
                              = "Manim ran successfully but no output file was found"

(***************************************************************************)
(* C23.  A subprocess timeout yields execution_status "failed" with the    *)
(* message "Manim execution timed out (120s limit)", and is routed like    *)
(* any other failure: to code_fixer while retry_count < 5, otherwise to    *)
(* END (for every retry_count the state could carry).                      *)
(***************************************************************************)
C23_TimeoutIsDistinctFailure ==
    /\ pc = "media_generator" =>
          \A env \in Envs :
              (/\ Validation[Get(state, "manim_code", EmptyCode)].is_valid
               /\ env.outdir_ok /\ env.mkdtemp_ok /\ env.write_ok
               /\ env.proc = "timeout") =>
                  \E out \in {media_generator(state, env)} :
                      /\ ~out.raised
                      /\ out.output["execution_status"] = "failed"
                      /\ out.output["error_message"] = "Manim execution timed out (120s limit)"
                      /\ \A rc \in 0..MaxRetryProbe :
                            route_after_media_generation(
                                Merge(ChannelWrite(state, out.output), [retry_count |-> rc]))
                              = IF rc < 5 THEN "code_fixer" ELSE "end"
    /\ (/\ NodeReturned("media_generator")
        /\ state["error_message"] = "Manim execution timed out (120s limit)") =>
          /\ state["execution_status"] = "failed"
          /\ attempt.spawned
          /\ pc \in {"code_fixer", "recursion_error"}

\* an attempt has timed out and the run is on its way to code_fixer
C23_TimedOutAttemptRouted ==
    /\ NodeReturned("media_generator")
    /\ state["error_message"] = "Manim execution timed out (120s limit)"
    /\ pc = "code_fixer"

\* the last at most n characters of a text
LastChars(text, n) ==
    IF Len(text) <= n THEN text ELSE SubSeq(text, Len(text) - n + 1, Len(text))

(***************************************************************************)
(* C24.  On a non-zero exit of the manim subprocess, error_message is      *)
(* "Manim execution failed: " followed by the last at most 1000            *)
(* characters of the subprocess's standard error and standard output       *)
(* taken together.                                                         *)
(***************************************************************************)
C24_ErrorTailReported ==
    pc = "media_generator" =>
        \A env \in Envs :
            ManimExited(state, env, 1) =>
                \E out \in {media_generator(state, env).output} :
                    out["error_message"]
                      = "Manim execution failed: "
                          \o LastChars(env.stderr \o env.stdout, ErrorLimit)

(***************************************************************************)
(* C25.  No two successful execution attempts, in one run, in successive   *)
(* runs or in interleaved runs, write the same file name in the serving    *)
(* directory: no copy overwrites the media file of another attempt.        *)
(***************************************************************************)
C25_NoFilenameWrittenTwice ==
    \A i \in 1..Len(copied) : \A j \in 1..Len(copied) :
        i # j => copied[i] # copied[j]

(***************************************************************************)
(* C26.  A run copies a media file into the serving directory at most      *)
(* once, and exactly once if and only if it ends with status success; a    *)
(* failed attempt (validation failure, non-zero exit, missing output,      *)
(* timeout) writes nothing there.                                          *)
(***************************************************************************)
C26_CopyOnlyOnSuccess ==
    /\ Len(copied) <= 1
    /\ Len(copied) = 1 <=> Get(state, "execution_status", "pending") = "success"
    /\ AtEnd => (Len(copied) = 1 <=> state["execution_status"] = "success")
    /\ pc = "returned" => (Len(copied) = 1 <=> result.status = "success")
    /\ (LastNode = "media_generator" /\ attempt.copied # None) =>
          /\ pc \in {"end", "returned"}
          /\ state["execution_status"] = "success"
          /\ copied = <<attempt.copied>>

\* a run has returned success after a failed attempt and a repair, and one
\* file is in the serving directory
C26_OneFileAfterRepair ==
    /\ pc = "returned"
    /\ result.status = "success"
    /\ Calls("media_generator") = 2
    /\ Len(copied) = 1

(***************************************************************************)
(* C27.  Each media_generator invocation executes the manim_code written   *)
(* by the most recent generator or code_fixer step of the run (the code    *)
(* of that step's model answer, not the caller's existing_code and not an  *)
(* earlier attempt's code), and media_generator leaves manim_code          *)
(* unchanged on every exit path.                                           *)
(***************************************************************************)
C27_Step ==
    /\ pc = "static_generator" =>
          \A response \in CodeResponses :
              static_generator(state, response)["manim_code"] = SanitizedAnswer[response]
    /\ pc = "dynamic_generator" =>
          \A response \in CodeResponses :
              dynamic_generator(state, response)["manim_code"] = SanitizedAnswer[response]
    /\ pc = "improvement_agent" =>
          \A response \in CodeResponses :
              improvement_agent(state, response)["manim_code"] = SanitizedAnswer[response]
    /\ pc = "code_fixer" =>
          \A response \in CodeResponses :
              code_fixer(state, response)["manim_code"] = SanitizedAnswer[response]
    /\ pc' = "media_generator" =>
          /\ pc \in Generators \cup {"code_fixer"}
          /\ LastNode' = pc
          /\ state'["manim_code"] = node_output'["manim_code"]
    /\ pc = "media_generator" =>
          /\ state'["manim_code"] = state["manim_code"]
          /\ pc' # "raised" => node_output'["manim_code"] = state["manim_code"]

C27_LatestCodeExecuted == [][C27_Step]_vars

\* media_generator is about to run the repaired code of a follow-up
\* request, which is not the code the caller supplied
C27_RepairedCodeScheduled ==
    /\ pc = "media_generator"
    /\ LastNode = "code_fixer"
    /\ args.existing_code # EmptyCode
    /\ state["manim_code"] # args.existing_code

\* the fields written by intention_detector, and the source text
ClassificationKeys ==
    {"pdf_text", "curriculum_component", "intention_type", "detected_concepts",
     "analysis_summary"}

(***************************************************************************)
(* C28.  pdf_text, curriculum_component, intention_type, detected_concepts *)
(* and analysis_summary are not modified by any step after                 *)
(* intention_detector, across all retries; the curriculum and intention    *)
(* of the result record are those the classifier produced and routing      *)
(* used.                                                                   *)
(***************************************************************************)
C28_Step ==
    /\ pc \in Nodes \ {"intention_detector"} =>
          \A k \in ClassificationKeys :
              /\ state'[k] = state[k]
              /\ pc' # "raised" => node_output'[k] = state[k]
    /\ pc = "intention_detector" => state'["pdf_text"] = state["pdf_text"]
    /\ pc' = "returned" =>
          /\ result'.curriculum = state["curriculum_component"]
          /\ result'.intention = state["intention_type"]
          /\ trace[2] = MappedGenerator(result'.intention)
          /\ state["pdf_text"] = args.pdf_text

C28_ClassificationKept == [][C28_Step]_vars

\* a run classified as dynamic physics content has returned after a repair
C28_ReturnedAfterRepair ==
    /\ pc = "returned"
    /\ Calls("code_fixer") >= 1
    /\ result.curriculum = "physics"
    /\ result.intention = "dynamic"

(***************************************************************************)
(* C29.  In every reachable state of a run media_path and media_type are   *)
(* non-None only if execution_status is "success"; at the start of every   *)
(* execution attempt (the first and each retry after code_fixer) both are  *)
(* None, and a failed attempt does not set them.                           *)
(***************************************************************************)
C29_MediaOnlyOnSuccess ==
    /\ (pc # "start" /\ (state["media_path"] # None \/ state["media_type"] # None))
          => state["execution_status"] = "success"
    /\ pc = "media_generator" =>
          state["media_path"] = None /\ state["media_type"] = None
    /\ (NodeReturned("media_generator") /\ state["execution_status"] = "failed") =>
          /\ node_output["media_path"] = None /\ node_output["media_type"] = None
          /\ state["media_path"] = None /\ state["media_type"] = None

\* a retry is about to start in a process whose earlier run on the thread
\* ended with a media file
C29_RetryStartsWithoutMedia ==
    /\ pc = "media_generator"
    /\ LastNode = "code_fixer"
    /\ copied # <<>>
    /\ state["media_path"] = None

(***************************************************************************)
(* C30.  The nodes of a run execute one after the other in the order of    *)
(* the graph: intention_detector once and first, then one generator once,  *)
(* then media_generator; every code_fixer invocation comes right after a   *)
(* failed media_generator invocation and is followed by media_generator;   *)
(* no two nodes are active at once (one node is scheduled at a time).      *)
(***************************************************************************)
C30_StateMachineOrder ==
    /\ \A i \in 1..Len(trace) :
          /\ trace[i] = "intention_detector" <=> i = 1
          /\ trace[i] \in Generators <=> i = 2
          /\ trace[i] = "media_generator" <=> (i >= 3 /\ i % 2 = 1)
          /\ trace[i] = "code_fixer" <=> (i >= 4 /\ i % 2 = 0)
    /\ pc \in Nodes =>
          /\ pc = "intention_detector" <=> Len(trace) = 0
          /\ pc \in Generators <=> Len(trace) = 1
          /\ pc = "media_generator" <=> (Len(trace) >= 2 /\ Len(trace) % 2 = 0)
          /\ pc = "code_fixer" <=> (Len(trace) >= 3 /\ Len(trace) % 2 = 1)
    /\ pc = "code_fixer" =>
          /\ LastNode = "media_generator"
          /\ state["execution_status"] = "failed"
          /\ node_output["execution_status"] = "failed"
    /\ (LastNode = "code_fixer" /\ pc # "raised") => pc = "media_generator"
    /\ (LastNode = "media_generator" /\ state["execution_status"] = "success")
          => AtEnd

\* a run has gone through a failed attempt, a repair and a second attempt
C30_RepairedRunReturned ==
    /\ pc = "returned"
    /\ Len(trace) = 5
    /\ trace[4] = "code_fixer"
    /\ trace[5] = "media_generator"

(***************************************************************************)
(* C31.  For every dict the classifier's answer parses to,                 *)
(* intention_detector stores a curriculum_component of {math, chemistry,   *)
(* physics, unknown} (the payload's value when it is one of them, unknown  *)
(* otherwise, also when the key is missing), an intention_type of {static, *)
(* dynamic, improvement} (the payload's value, or static), and the         *)
(* payload's list of concepts (the empty list for a value that is no       *)
(* list); the routing after the node then finds intention_type in the      *)
(* routing map and never takes the default branch.                         *)
(***************************************************************************)
CurriculumProbe == CurriculumComponent \cup {"biology", "Math", "", None}

ConceptsProbe == {PyList(<<>>), PyList(<<"Pythagorean theorem">>), NotAList}

PayloadProbe ==
    {Payload(c, i, l) : c \in CurriculumProbe, i \in IntentionProbe, l \in ConceptsProbe}
    \cup {NoDict, [curriculum |-> "math"], [intention |-> "quiz"], [concepts |-> NotAList]}

C31_Normalised(parsed, out) ==
    /\ out["curriculum_component"] \in CurriculumComponent
    /\ out["curriculum_component"] =
          IF "curriculum" \in DOMAIN parsed /\ parsed["curriculum"] \in CurriculumComponent
          THEN parsed["curriculum"] ELSE "unknown"
    /\ out["intention_type"] \in IntentionType
    /\ out["intention_type"] =
          IF "intention" \in DOMAIN parsed /\ parsed["intention"] \in IntentionType
          THEN parsed["intention"] ELSE "static"
    /\ out["detected_concepts"] \in Seq({"Pythagorean theorem"})
    /\ out["detected_concepts"] =
          IF "concepts" \in DOMAIN parsed /\ parsed["concepts"].is_list
          THEN parsed["concepts"].items ELSE <<>>

C31_Step ==
    pc = "intention_detector" =>
        /\ \A parsed \in PayloadProbe :
              \E out \in {intention_detector(state, parsed)} :
                 /\ C31_Normalised(parsed, out)
                 /\ out["intention_type"] \in DOMAIN routing_map
        /\ pc' # "raised" =>
              /\ node_output'["curriculum_component"] \in CurriculumComponent
              /\ node_output'["intention_type"] \in IntentionType
              /\ node_output'["detected_concepts"] \in Seq({"Pythagorean theorem"})
              /\ "intention_type" \in DOMAIN state'
              /\ state'["intention_type"] \in DOMAIN routing_map
              /\ pc' = routing_map[state'["intention_type"]]

C31_ClassificationNormalised == [][C31_Step]_vars

\* the classifier answered curriculum "biology", intention "quiz" and
\* concepts "none": the run went on to static_generator with the defaults
C31_UnknownValuesCoerced ==
    /\ trace = <<"intention_detector">>
    /\ pc = "static_generator"
    /\ state["curriculum_component"] = "unknown"
    /\ state["intention_type"] = "static"
    /\ state["detected_concepts"] = <<>>
    /\ state["analysis_summary"] = "A proof of the Pythagorean theorem"

(***************************************************************************)
(* C32.  For code that is not empty, has a Scene class and a construct     *)
(* method and compiles, the validator's verdict is invalid, with an error  *)
(* message and suggestions, whenever one of the four misuse detectors      *)
(* matches: RightAngle called with indexed arguments, a polygon or         *)
(* triangle indexed outside an assignment, np.* used without an import     *)
(* that provides it, or a 2D coordinate literal such as Dot([1, 2]).       *)
(***************************************************************************)
PassesStructureChecks(code) ==
    /\ ~IsEmptyCode(code)
    /\ extract_scene_name(code) # None
    /\ InCode("def construct(self", code)
    /\ compile(code).ok

DetectorMatches(code) ==
    \/ InCode("RightAngle(", code) /\ RightAngleIndexed(code)
    \/ PolygonIndexed(code) /\ ~PolygonAssigned(code)
    \/ /\ UsesNumpy(code)
       /\ ~InCode("import numpy", code)
       /\ ~InCode("from numpy", code)
       /\ ~InCode("from manim import *", code)
    \/ point_pattern(code)

C32_DetectorsReject ==
    pc = "validated" =>
        \E code \in {state["manim_code"]} :
            (PassesStructureChecks(code) /\ DetectorMatches(code)) =>
                /\ ~node_output.is_valid
                /\ node_output.error_message # None
                /\ node_output.suggestions # <<>>

(***************************************************************************)
(* C33.  Every manim_code a generator or code_fixer stores is an output of *)
(* sanitize_manim_code: none of its lines holds a disallowed substring,    *)
(* it holds a manim import, and sanitizing it again changes nothing.  So   *)
(* the code every media_generator invocation is about to execute has no    *)
(* line with a disallowed substring and has a manim import.                *)
(***************************************************************************)
IsSanitized(code) ==
    /\ \A n \in 1..Len(code) : IsAllowedLine(code[n])
    /\ ImportsManim(code)

C33_Step ==
    /\ (pc \in Generators \cup {"code_fixer"} /\ pc' # "raised") =>
          /\ IsSanitized(node_output'["manim_code"])
          /\ sanitize_manim_code(node_output'["manim_code"]) = node_output'["manim_code"]
          /\ state'["manim_code"] = node_output'["manim_code"]
    /\ pc' = "media_generator" => IsSanitized(state'["manim_code"])

C33_ExecutedCodeSanitized == [][C33_Step]_vars

\* media_generator is about to run a repaired code whose answer imported
\* subprocess, called eval and had no manim import
C33_DangerousAnswerScheduled ==
    /\ pc = "media_generator"
    /\ LastNode = "code_fixer"
    /\ state["manim_code"] =
          <<"from manim import *", "", "class Proof(Scene):",
            "    def construct(self):", "        self.add(Circle())">>

(***************************************************************************)
(* C34.  The retry_count that code_fixer returns is the retry_count the    *)
(* next media_generator invocation and the next routing decision read:     *)
(* the state the graph carries between nodes holds it, and                 *)
(* state.get("retry_count", 0) does not fall back to 0 after a repair.     *)
(***************************************************************************)
C34_Step ==
    /\ (pc = "code_fixer" /\ pc' = "media_generator") =>
          /\ "retry_count" \in DOMAIN state'
          /\ RetryCount(state') = node_output'["retry_count"]
    /\ (pc = "media_generator" /\ Calls("code_fixer") > 0 /\ pc' # "raised") =>
          /\ RetryCount(state) > 0
          /\ RetryCount(state') = RetryCount(state)

C34_RetryCountCarried == [][C34_Step]_vars

(***************************************************************************)
(* C35.  At every routing decision after media_generator the number of     *)
(* media_generator invocations of the run so far is retry_count + 1, and   *)
(* a run makes at most MAX_RETRIES + 1 = 6 execution attempts.             *)
(***************************************************************************)
C35_AttemptsCounted ==
    /\ NodeReturned("media_generator") =>
          Calls("media_generator") = RetryCount(state) + 1
    /\ Calls("media_generator") <= MAX_RETRIES + 1

(***************************************************************************)
(* Two calls of the chat router in one process: an upload and a message    *)
(* of a chat, both on the thread "default", so both save their checkpoints *)
(* under the same thread_id of the one MemorySaver.                        *)
(***************************************************************************)
\* a message of a chat that has a document and the code of an earlier answer
ChatMessageCall ==
    [pdf_text |-> "Boyle's law: p V = k", user_query |-> "Show the proof as an animation",
     existing_code |-> ValidScene, thread_id |-> DefaultThread]

\* the upload's call is running and the message's call waits
SharedThreadInit ==
    /\ args = ChatCall
    /\ NewRun
    /\ copied = <<>>
    /\ memory = [t \in ThreadIds |-> NoCheckpoint]
    /\ suspended = [RunVars EXCEPT !.args = ChatMessageCall]

\* the machine behaviours followed for these two calls: a manim run that
\* succeeds and one that fails
SharedThreadEnvs == {BaseEnv, FailingEnv}

SharedThreadNext ==
    \/ Switch
    \/ Invoke
    \/ IntentionDetectorOn(ConcurrentClassifierResponses)
    \/ StaticGeneratorOn(ConcurrentCodeResponses)
    \/ DynamicGeneratorOn(ConcurrentCodeResponses)
    \/ ImprovementAgentOn(ConcurrentCodeResponses)
    \/ MediaGeneratorOn(SharedThreadEnvs)
    \/ CodeFixerOn(ConcurrentCodeResponses)
    \/ Return

SharedThreadSpec == SharedThreadInit /\ [][SharedThreadNext]_vars

(***************************************************************************)
(* C36.  Two runs on the same thread_id, interleaved at their suspension   *)
(* points, each work on their own state: a run starts from its own input   *)
(* whatever the other has checkpointed, every node and routing decision    *)
(* of a run uses the run's own channel values (manim_code,                 *)
(* execution_status, retry_count), and the record a run returns is made of *)
(* its own final state.                                                    *)
(***************************************************************************)
C36_Step ==
    /\ IF suspended' # suspended
       THEN SwitchStep
       ELSE /\ OwnStateStep
            /\ pc = "start" => state' = Restrict(InitialState(args), EducationalStateKeys)
    /\ OwnInputs(RunVars)' /\ OwnResult(RunVars)'
    /\ OwnInputs(suspended)' /\ OwnResult(suspended)'

C36_SharedThreadRunsIndependent == [][C36_Step]_vars

\* the message's call has just started on the checkpoint the upload's call
\* saved after a failed attempt, while that call waits for its code_fixer
C36_StartedOnOtherRunsCheckpoint ==
    /\ args = ChatMessageCall
    /\ pc = "intention_detector"
    /\ trace = <<>>
    /\ suspended.pc = "code_fixer"
    /\ suspended.state["execution_status"] = "failed"
    /\ state["execution_status"] = "pending"
    /\ state["manim_code"] = ValidScene
    /\ memory[DefaultThread] = state

(***************************************************************************)
(* C37.  Whenever validate_manim_code returns a valid verdict for a code,  *)
(* extract_scene_name returns a name (not None, not empty) for the same    *)
(* code: media_generator, which calls the two in this order on one string, *)
(* never takes its "Could not find Scene class in the code" branch.        *)
(***************************************************************************)
C37_ValidCodeHasSceneName ==
    (pc = "validated" /\ node_output.is_valid) =>
        \E scene_name \in {extract_scene_name(state["manim_code"])} :
            /\ scene_name # None
            /\ scene_name # ""

\* a code with a Scene class and a construct method was found valid
C37_ValidSceneValidated ==
    /\ pc = "validated"
    /\ node_output.is_valid
    /\ extract_scene_name(state["manim_code"]) = "Proof"

====
